---- MODULE Spec2Model ----
(***************************************************************************)
(* The EXPA row codec and container of MVGLTools.                          *)
(*                                                                         *)
(* The sources hold two revisions of the row codec (struct Structure):     *)
(*   "EXPANew"  src/DSCSTools/EXPANew.cpp, used by the container templates *)
(*              of src/DSCSTools/include/EXPAnew.h;                        *)
(*   "EXPA"     the EXPA.cpp part of src/unnamed/part_000 (its writeEXPA   *)
(*              allocates the row buffer itself).                          *)
(* Operators of the first revision carry the suffix New; the variable rev  *)
(* says which revision a run of the codec uses.                            *)
(*                                                                         *)
(* Spec runs one row through the codec of either revision; SpecFile runs   *)
(* the container of EXPAnew.h, which is built on the first revision.       *)
(*                                                                         *)
(* Bytes are 0..255, a buffer is a sequence of bytes indexed from offset 0 *)
(* (element off + 1).  The host is little-endian.                          *)
(***************************************************************************)
EXTENDS Integers, Sequences, FiniteSets, TLC

VARIABLES
    \* one run of the row codec
    rev,          \* codec revision in use: "EXPANew" or "EXPA"
    structure,    \* Structure::structure, a sequence of [name, type]
    entries,      \* one row: a sequence of EntryValue
    rowOffset,    \* the row's absolute file offset (writeEXPA's base_offset)
    pc,           \* position of the codec run: "idle", "new", "sized", "written", "read"
    size,         \* result of getEXPASize()
    wr,           \* result of writeEXPA (buffer, CHNK entries, cursor)
    rd,           \* result of readEXPA  (values, offsets read)
    \* the loaded image, of a codec run or of readEXPA<expa>
    mem,          \* std::vector<char> content
    memBase,      \* content.data(), the address of the image
    \* the container: writeEXPA<expa>(file, path) then readEXPA<expa>(path)
    dialect,      \* "EXPA32" or "EXPA64"
    file,         \* the FinalFile being written: [tables], each [name, structure, entries]
    fs,           \* the structures/ folder the resolver consults
    wpc,          \* writer position: "idle", "start", "tables", "done", "thrown"
    stream,       \* the std::ofstream: [out, pos], bytes written and tellp()
    chnk,         \* std::vector<CHNKEntry> chnk of the writer
    layout,       \* where the writer put each table: [header, rowSize, data, rowBytes]
    rpc,          \* reader position: "idle", "tables", "patch", "decode", "done"
    rpos,         \* stream.tellg() of the reader
    tables,       \* std::vector<TableEntry> of the reader
    left,         \* iterations left in the reader's current loop
    finalTable,   \* std::vector<FinalTable> finalTable of the reader
    fault,        \* the reader has read outside the file or the image
    outside,      \* the reader has read or written memory outside content
    result,       \* what readEXPA<expa> returns: [ok, error, value]
    pass,         \* 1 while the file is written and read, 2 while the result is written again
    firstOut,     \* the bytes of the first pass
    tampered,     \* the file on disk was altered after writeEXPA<expa> wrote it
    \* one call of the schema resolver
    query,        \* the call: [op, ...], op "convert", "lookup" or "reconcile"
    answer        \* what the call returned: [done, value]

codecVars == <<rev, structure, entries, rowOffset, pc, size, wr, rd>>
memVars == <<mem, memBase>>
writerVars == <<wpc, stream, chnk, layout>>
readerVars == <<rpc, rpos, tables, left, finalTable, fault, outside, result>>
fileVars == <<dialect, file, fs, pass, firstOut, tampered>>

schemaVars == <<query, answer>>

vars == <<codecVars, memVars, writerVars, readerVars, fileVars, schemaVars>>

----------------------------------------------------------------------------
(* Bounds of the model *)

MaxFields == 2       \* every structure of up to MaxFields fields is drawn
MaxBools == 33       \* longest run of consecutive BOOL fields drawn
MaxStrLen == 4       \* longest string drawn for a string cell
MaxArrayLen == 3     \* longest int array drawn
MaxTables == 2       \* most tables in a file
MaxRows == 2         \* most rows in a table

----------------------------------------------------------------------------
(* EntryType and EntryValue *)

EntryType ==
    {"UNK0", "UNK1", "INT32", "INT16", "INT8", "FLOAT", "STRING3", "STRING",
     "STRING2", "BOOL", "EMPTY", "INT_ARRAY"}

StringTypes == {"STRING3", "STRING", "STRING2"}
NoneTypes == {"UNK0", "UNK1", "EMPTY"}

\* EntryValue: the active alternative of the variant and its content, always
\* a sequence: <<0 or 1>> for bool, <<n>> for the integers, <<bits>> for a
\* float (its binary32 pattern), the bytes of a string, the elements of a
\* vector, <<>> for nullopt.
EntryValue(tag, v) == [tag |-> tag, v |-> v]

\* the alternative std::get<T> is called with for a field of the type
TagOf(type) ==
    CASE type = "INT32" -> "i32"
      [] type = "INT16" -> "i16"
      [] type = "INT8" -> "i8"
      [] type = "FLOAT" -> "f32"
      [] type \in StringTypes -> "string"
      [] type = "BOOL" -> "bool"
      [] type = "INT_ARRAY" -> "vec"
      [] OTHER -> "none"

----------------------------------------------------------------------------
(* Helpers.h: integer rounding, and the byte images of scalars *)

ceilInteger(value, step) ==
    IF step = 0 THEN value ELSE ((value + step - 1) \div step) * step

Pow256(i) ==
    IF i = 0 THEN 1 ELSE IF i = 1 THEN 256 ELSE IF i = 2 THEN 65536 ELSE 16777216

\* the w bytes of the two's complement image of n, least significant first
\* (n within the 32-bit signed range; bytes past the fourth extend the sign)
LE(n, w) ==
    [i \in 1..w |->
        IF i <= 4 THEN (n \div Pow256(i - 1)) % 256
        ELSE IF n < 0 THEN 255 ELSE 0]

\* the signed value of the w <= 4 bytes at offset off of buf
ReadLE(buf, off, w) ==
    LET b(i) == buf[off + i]
        top == IF b(w) >= 128 THEN b(w) - 256 ELSE b(w)
        low[i \in 0..w] ==
            IF i = 0 THEN 0 ELSE low[i - 1] + b(i) * Pow256(i - 1)
    IN  low[w - 1] + top * Pow256(w - 1)

\* buf with the bytes written at offset off; bytes that would fall past the
\* end of buf are not stored here (the caller records the overrun)
WriteBytes(buf, off, bytes) ==
    [i \in 1..Len(buf) |->
        IF i > off /\ i <= off + Len(bytes) THEN bytes[i - off] ELSE buf[i]]

Fits(buf, off, n) == off >= 0 /\ off + n <= Len(buf)

Fill(n, byte) == [i \in 1..n |-> byte]

Min(a, b) == IF a < b THEN a ELSE b

\* e, with x evaluated first: keeps the evaluation of a long loop flat
\* x is computed once and handed to F
With(x, F(_)) == F(x)

Strict(x, e) == IF x = x THEN e ELSE e

----------------------------------------------------------------------------
(* Layout tables *)

getAlignment(type) ==
    CASE type = "UNK0" -> 0
      [] type = "UNK1" -> 0
      [] type = "INT32" -> 4
      [] type = "INT16" -> 2
      [] type = "INT8" -> 1
      [] type = "FLOAT" -> 4
      [] type = "STRING3" -> 8
      [] type = "STRING" -> 8
      [] type = "STRING2" -> 8
      [] type = "BOOL" -> 4
      [] type = "EMPTY" -> 0
      [] type = "INT_ARRAY" -> 8
      [] OTHER -> 0

getSize(type) ==
    CASE type = "UNK0" -> 0
      [] type = "UNK1" -> 0
      [] type = "INT32" -> 4
      [] type = "INT16" -> 2
      [] type = "INT8" -> 1
      [] type = "FLOAT" -> 4
      [] type = "STRING3" -> 8
      [] type = "STRING" -> 8
      [] type = "STRING2" -> 8
      [] type = "BOOL" -> 4
      [] type = "EMPTY" -> 0
      [] type = "INT_ARRAY" -> 16
      [] OTHER -> 0

----------------------------------------------------------------------------
(* CHNKEntry: [offset, value] *)

\* EXPANew.cpp: the vector has ceilInteger<4>(size + 1) zero bytes, the string
\* is copied over its start
CHNKEntryStringNew(offset, str) ==
    [offset |-> offset,
     value |-> WriteBytes(Fill(ceilInteger(Len(str) + 1, 4), 0), 0, str)]

\* EXPANew.cpp: std::copy over the int32 elements stores one char per
\* element (the element converted to char), the other bytes stay zero
CHNKEntryArrayNew(offset, array) ==
    [offset |-> offset,
     value |-> WriteBytes(Fill(Len(array) * 4, 0), 0,
                          [i \in 1..Len(array) |-> array[i] % 256])]

\* a constructor that leaves no room for the terminating NUL
CHNKEntryStringNoTerminator(offset, str) ==
    [offset |-> offset,
     value |-> WriteBytes(Fill(ceilInteger(Len(str), 4), 0), 0, str)]

\* part_000: ceilInteger<4>(size + 2) zero bytes, the string copied over
CHNKEntryString(offset, str) ==
    [offset |-> offset,
     value |-> WriteBytes(Fill(ceilInteger(Len(str) + 2, 4), 0), 0, str)]

\* part_000: std::copy_n over the bytes of the int32 elements
CHNKEntryArray(offset, array) ==
    [offset |-> offset,
     value |-> [i \in 1..(Len(array) * 4) |->
                   LE(array[((i - 1) \div 4) + 1], 4)[((i - 1) % 4) + 1]]]

----------------------------------------------------------------------------
(* writeEXPAEntry: stores one cell at buf[off..], returns the buffer, the   *)
(* CHNK entry if any (a sequence of 0 or 1 entries) and whether a store ran *)
(* past the end of the buffer.                                              *)

\* a store that also clears the byte after the value
StoreWide(buf, off, bytes, emitted) ==
    [data |-> WriteBytes(buf, off, bytes \o <<0>>),
     chnk |-> emitted,
     over |-> ~Fits(buf, off, Len(bytes))]

Store(buf, off, bytes, emitted) ==
    [data |-> WriteBytes(buf, off, bytes),
     chnk |-> emitted,
     over |-> ~Fits(buf, off, Len(bytes))]

writeEXPAEntryNew(base_offset, buf, off, type, value) ==
    CASE type = "INT32" -> Store(buf, off, LE(value.v[1], 4), <<>>)
      [] type = "INT16" -> Store(buf, off, LE(value.v[1], 2), <<>>)
      [] type = "INT8" -> Store(buf, off, LE(value.v[1], 1), <<>>)
      [] type = "FLOAT" -> Store(buf, off, LE(value.v[1], 4), <<>>)
      [] type \in StringTypes ->
            Store(buf, off, LE(0, 8),
                  IF value.v # <<>>
                  THEN <<CHNKEntryStringNew(base_offset, value.v)>> ELSE <<>>)
      [] type = "INT_ARRAY" ->
            LET a == Store(buf, off, LE(Len(value.v), 4), <<>>)
                b == Store(a.data, off + 8, LE(0, 8),
                           <<CHNKEntryArrayNew(base_offset + 8, value.v)>>)
            IN  [b EXCEPT !.over = a.over \/ b.over]
      [] OTHER -> [data |-> buf, chnk |-> <<>>, over |-> FALSE]

writeEXPAEntry(base_offset, buf, off, type, value) ==
    CASE type = "INT32" -> Store(buf, off, LE(value.v[1], 4), <<>>)
      [] type = "INT16" -> Store(buf, off, LE(value.v[1], 2), <<>>)
      [] type = "INT8" -> Store(buf, off, LE(value.v[1], 1), <<>>)
      [] type = "FLOAT" -> Store(buf, off, LE(value.v[1], 4), <<>>)
      [] type \in StringTypes ->
            Store(buf, off, LE(0, 8),
                  IF value.v # <<>>
                  THEN <<CHNKEntryString(base_offset, value.v)>> ELSE <<>>)
      [] type = "INT_ARRAY" ->
            LET a == Store(buf, off, LE(Len(value.v), 4), <<>>)
                b == Store(a.data, off + 8, LE(0, 8),
                           IF value.v # <<>>
                           THEN <<CHNKEntryArray(base_offset + 8, value.v)>>
                           ELSE <<>>)
            IN  [b EXCEPT !.over = a.over \/ b.over]
      [] OTHER -> [data |-> buf, chnk |-> <<>>, over |-> FALSE]

----------------------------------------------------------------------------
(* Structure::getEXPASize.  The loop state also keeps at: for each field    *)
(* the value of currentSize after the alignment (lo) and after the field's  *)
(* size was added (hi).                                                     *)

sizeStepNew(st, type) ==
    LET g == IF st.bitCounter # 0 \/ type # "BOOL"
             THEN [st EXCEPT !.currentSize = ceilInteger(@, getAlignment(type)),
                             !.bitCounter = 0]
             ELSE st
        a == IF g.bitCounter = 0
             THEN [g EXCEPT !.currentSize = @ + getSize(type)] ELSE g
        h == [a EXCEPT !.at = Append(@, [lo |-> g.currentSize,
                                         hi |-> a.currentSize])]
    IN  IF type = "BOOL" THEN [h EXCEPT !.bitCounter = @ + 1] ELSE h

sizeStep(st, type) ==
    LET g == IF st.bitCounter = 0 \/ st.bitCounter >= 32 \/ type # "BOOL"
             THEN [st EXCEPT !.currentSize = ceilInteger(@, getAlignment(type)),
                             !.bitCounter = 0]
             ELSE st
        a == IF g.bitCounter = 0
             THEN [g EXCEPT !.currentSize = @ + getSize(type)] ELSE g
        h == [a EXCEPT !.at = Append(@, [lo |-> g.currentSize,
                                         hi |-> a.currentSize])]
    IN  IF type = "BOOL" THEN [h EXCEPT !.bitCounter = @ + 1] ELSE h

SizeStart == [currentSize |-> 0, bitCounter |-> 0, at |-> <<>>]

RECURSIVE sizeLoopNew(_, _, _)
sizeLoopNew(s, i, st) ==
    IF i > Len(s) THEN st
    ELSE LET nxt == sizeStepNew(st, s[i].type)
         IN  Strict(nxt, sizeLoopNew(s, i + 1, nxt))

RECURSIVE sizeLoop(_, _, _)
sizeLoop(s, i, st) ==
    IF i > Len(s) THEN st
    ELSE LET nxt == sizeStep(st, s[i].type)
         IN  Strict(nxt, sizeLoop(s, i + 1, nxt))

getEXPASizeNew(s) ==
    IF s = <<>> THEN 0
    ELSE LET currentSize == sizeLoopNew(s, 1, SizeStart).currentSize
         IN  IF Len(s) % 2 = 0 THEN ceilInteger(currentSize, 8) ELSE currentSize

getEXPASize(s) ==
    IF s = <<>> THEN 0
    ELSE ceilInteger(sizeLoop(s, 1, SizeStart).currentSize, 8)

----------------------------------------------------------------------------
(* Structure::writeEXPA.  The loop state: offset, bitCounter, currentBool   *)
(* (std::bitset<32>, bit k at index k + 1), the row buffer, the CHNK        *)
(* entries, thrown (std::bitset::set raised std::out_of_range), over (a     *)
(* store ran past the buffer) and at: for each field the offset it was      *)
(* handed to writeEXPAEntry with and, for a BOOL, the bit it was set at     *)
(* (-1 for the other types).                                                *)

NoBits == [k \in 1..32 |-> 0]

\* currentBool.to_ulong() as the four bytes of a uint32_t
BoolWord(bits) ==
    [j \in 1..4 |->
        bits[8 * j - 7] + 2 * bits[8 * j - 6] + 4 * bits[8 * j - 5]
        + 8 * bits[8 * j - 4] + 16 * bits[8 * j - 3] + 32 * bits[8 * j - 2]
        + 64 * bits[8 * j - 1] + 128 * bits[8 * j]]

\* *reinterpret_cast<uint32_t*>(data + offset) = currentBool.to_ulong();
\* offset += sizeof(uint32_t)
FlushBool(st) ==
    [st EXCEPT !.data = WriteBytes(@, st.offset, BoolWord(st.currentBool)),
               !.over = @ \/ ~Fits(st.data, st.offset, 4),
               !.flushed = Append(@, st.offset),
               !.offset = @ + 4]

WriteStart(buf) ==
    [offset |-> 0, bitCounter |-> 0, currentBool |-> NoBits, data |-> buf,
     chunk |-> <<>>, thrown |-> FALSE, over |-> FALSE, at |-> <<>>,
     flushed |-> <<>>]

writeStepNew(base_offset, st, type, entry) ==
    LET f == IF type # "BOOL" /\ st.bitCounter > 0
             THEN [FlushBool(st) EXCEPT !.bitCounter = 0, !.currentBool = NoBits]
             ELSE st
        g == IF type # "BOOL"
             THEN [f EXCEPT !.offset = ceilInteger(@, getAlignment(type))]
             ELSE f
        r == writeEXPAEntryNew(base_offset + g.offset, g.data, g.offset, type, entry)
        h == [g EXCEPT !.data = r.data,
                       !.chunk = @ \o r.chnk,
                       !.over = @ \/ r.over,
                       !.at = Append(@, [off |-> g.offset,
                                         bit |-> IF type = "BOOL"
                                                 THEN g.bitCounter ELSE -1])]
    IN  IF type = "BOOL"
        THEN IF h.bitCounter >= 32
             THEN [h EXCEPT !.thrown = TRUE]
             ELSE [h EXCEPT !.currentBool[h.bitCounter + 1] = entry.v[1],
                            !.bitCounter = @ + 1]
        ELSE [h EXCEPT !.offset = @ + getSize(type)]

writeStep(st, type, entry) ==
    LET f == IF (type # "BOOL" \/ st.bitCounter >= 32) /\ st.bitCounter > 0
             THEN [FlushBool(st) EXCEPT !.bitCounter = 0, !.currentBool = NoBits]
             ELSE st
        g == IF type # "BOOL" \/ st.bitCounter >= 32
             THEN [f EXCEPT !.offset = ceilInteger(@, getAlignment(type))]
             ELSE f
        r == writeEXPAEntry(g.offset, g.data, g.offset, type, entry)
        h == [g EXCEPT !.data = r.data,
                       !.chunk = @ \o r.chnk,
                       !.over = @ \/ r.over,
                       !.at = Append(@, [off |-> g.offset,
                                         bit |-> IF type = "BOOL"
                                                 THEN g.bitCounter ELSE -1])]
    IN  IF type = "BOOL"
        THEN IF h.bitCounter >= 32
             THEN [h EXCEPT !.thrown = TRUE]
             ELSE [h EXCEPT !.currentBool[h.bitCounter + 1] = entry.v[1],
                            !.bitCounter = @ + 1]
        ELSE [h EXCEPT !.offset = @ + getSize(type)]

RECURSIVE writeLoopNew(_, _, _, _, _)
writeLoopNew(s, base_offset, es, i, st) ==
    IF i > Min(Len(s), Len(es)) \/ st.thrown THEN st
    ELSE LET nxt == writeStepNew(base_offset, st, s[i].type, es[i])
         IN  Strict(nxt, writeLoopNew(s, base_offset, es, i + 1, nxt))

RECURSIVE writeLoop(_, _, _, _)
writeLoop(s, es, i, st) ==
    IF i > Min(Len(s), Len(es)) \/ st.thrown THEN st
    ELSE LET nxt == writeStep(st, s[i].type, es[i])
         IN  Strict(nxt, writeLoop(s, es, i + 1, nxt))

\* EXPANew.cpp: writes into the caller's buffer
writeEXPANew(s, base_offset, buf, es) ==
    LET st == writeLoopNew(s, base_offset, es, 1, WriteStart(buf))
    IN  IF ~st.thrown /\ st.bitCounter > 0 THEN FlushBool(st) ELSE st

\* part_000: allocates getEXPASize() bytes of 0xCC itself; the offsets of
\* its CHNK entries are relative to the row
writeEXPA(s, es) ==
    LET st == writeLoop(s, es, 1, WriteStart(Fill(getEXPASize(s), 204)))
    IN  IF ~st.thrown /\ st.bitCounter > 0 THEN FlushBool(st) ELSE st

----------------------------------------------------------------------------
(* readEXPAEntry.  content is the loaded file image, contentBase the        *)
(* address of its first byte, pos the position in the image of the cell.    *)
(* A load outside the image, or through a pointer that does not point into  *)
(* it, is undefined behaviour: the result is marked fault.                  *)

\* the 64-bit word at pos as an address; -1 for a word no address of the
\* model has (a high byte set)
PtrAt(content, pos) ==
    IF \A i \in 5..8 : content[pos + i] = 0 THEN
        IF content[pos + 4] < 128 THEN ReadLE(content, pos, 4) ELSE -1
    ELSE -1

RECURSIVE CStringEnd(_, _)
\* position of the first NUL at or after p, Len(content) if there is none
CStringEnd(content, p) ==
    IF p >= Len(content) THEN Len(content)
    ELSE IF content[p + 1] = 0 THEN p ELSE CStringEnd(content, p + 1)

Loaded(value) == [value |-> value, fault |-> FALSE]
Faulted(tag) == [value |-> EntryValue(tag, <<>>), fault |-> TRUE]

\* a load whose value is held as int32_t whatever the field's type
readScalarAsInt32(tag, content, pos, w) ==
    IF Fits(content, pos, w)
    THEN Loaded(EntryValue("i32", <<ReadLE(content, pos, w)>>))
    ELSE Faulted("i32")

readScalar(tag, content, pos, w) ==
    IF Fits(content, pos, w)
    THEN Loaded(EntryValue(tag, <<ReadLE(content, pos, w)>>))
    ELSE Faulted(tag)

readString(content, contentBase, pos) ==
    IF ~Fits(content, pos, 8) THEN Faulted("string")
    ELSE LET ptr == PtrAt(content, pos)
             p == ptr - contentBase
         IN  IF ptr = 0 THEN Loaded(EntryValue("string", <<>>))
             ELSE IF ptr < 0 \/ p < 0 \/ p >= Len(content) THEN Faulted("string")
             ELSE LET e == CStringEnd(content, p)
                  IN  IF e >= Len(content) THEN Faulted("string")
                      ELSE Loaded(EntryValue("string",
                                             [i \in 1..(e - p) |-> content[p + i]]))

readArray(content, contentBase, pos) ==
    IF ~Fits(content, pos, 16) THEN Faulted("vec")
    ELSE LET count == ReadLE(content, pos, 4)
             ptr == PtrAt(content, pos + 8)
             p == ptr - contentBase
         IN  IF count <= 0 THEN Loaded(EntryValue("vec", <<>>))
             ELSE IF ptr <= 0 \/ p < 0 \/ ~Fits(content, p, 4 * count)
                  THEN Faulted("vec")
             ELSE Loaded(EntryValue("vec",
                     [i \in 1..count |-> ReadLE(content, p + 4 * (i - 1), 4)]))

\* ((*reinterpret_cast<const int32_t*>(data) >> bitCounter) & 1) == 1
readBool(content, pos, bitCounter) ==
    IF ~Fits(content, pos, 4) \/ bitCounter >= 32 THEN Faulted("bool")
    ELSE Loaded(EntryValue("bool",
            <<(content[pos + 1 + (bitCounter \div 8)]
                 \div (2 ^ (bitCounter % 8))) % 2>>))

readEXPAEntryNew(type, content, contentBase, pos, bitCounter) ==
    CASE type = "INT32" -> readScalar("i32", content, pos, 4)
      [] type = "INT16" -> readScalar("i16", content, pos, 2)
      [] type = "INT8" -> readScalar("i8", content, pos, 1)
      [] type = "FLOAT" -> readScalar("f32", content, pos, 4)
      [] type \in StringTypes -> readString(content, contentBase, pos)
      [] type = "BOOL" -> readBool(content, pos, bitCounter)
      [] type = "INT_ARRAY" -> readArray(content, contentBase, pos)
      [] OTHER -> Loaded(EntryValue("none", <<>>))

readEXPAEntry(type, content, contentBase, pos, bitCounter) ==
    CASE type = "INT32" -> readScalar("i32", content, pos, 4)
      [] type = "INT16" -> readScalar("i16", content, pos, 2)
      [] type = "INT8" -> readScalar("i8", content, pos, 1)
      [] type = "FLOAT" -> readScalar("f32", content, pos, 4)
      [] type \in StringTypes -> readString(content, contentBase, pos)
      [] type = "BOOL" -> readBool(content, pos, bitCounter)
      [] type = "INT_ARRAY" -> readArray(content, contentBase, pos)
      [] OTHER -> Loaded(EntryValue("none", <<>>))

----------------------------------------------------------------------------
(* Structure::readEXPA(data), data = content + row.  The loop state keeps   *)
(* at: for each field the row offset and bit it was read at.                *)

ReadStart == [offset |-> 0, bitCounter |-> 0, values |-> <<>>, fault |-> FALSE,
              at |-> <<>>]

readStepNew(content, contentBase, row, st, type) ==
    LET g == IF st.bitCounter # 0 \/ type # "BOOL"
             THEN [st EXCEPT !.offset = ceilInteger(@, getAlignment(type)),
                             !.bitCounter = 0]
             ELSE st
        r == readEXPAEntryNew(type, content, contentBase, row + g.offset,
                              g.bitCounter)
        h == [g EXCEPT !.values = Append(@, r.value),
                       !.fault = @ \/ r.fault,
                       !.at = Append(@, [off |-> g.offset,
                                         bit |-> IF type = "BOOL"
                                                 THEN g.bitCounter ELSE -1])]
        a == IF h.bitCounter = 0
             THEN [h EXCEPT !.offset = @ + getSize(type)] ELSE h
    IN  IF type = "BOOL" THEN [a EXCEPT !.bitCounter = @ + 1] ELSE a

readStep(content, contentBase, row, st, type) ==
    LET g == IF type # "BOOL" \/ st.bitCounter >= 32
             THEN [st EXCEPT
                     !.offset = ceilInteger(
                         IF st.bitCounter > 0 THEN @ + getSize("BOOL") ELSE @,
                         getAlignment(type)),
                     !.bitCounter = 0]
             ELSE st
        r == readEXPAEntry(type, content, contentBase, row + g.offset,
                           g.bitCounter)
        h == [g EXCEPT !.values = Append(@, r.value),
                       !.fault = @ \/ r.fault,
                       !.at = Append(@, [off |-> g.offset,
                                         bit |-> IF type = "BOOL"
                                                 THEN g.bitCounter ELSE -1])]
    IN  IF type = "BOOL" THEN [h EXCEPT !.bitCounter = @ + 1]
        ELSE [h EXCEPT !.offset = @ + getSize(type)]

RECURSIVE readLoopNew(_, _, _, _, _, _)
readLoopNew(s, content, contentBase, row, i, st) ==
    IF i > Len(s) THEN st
    ELSE LET nxt == readStepNew(content, contentBase, row, st, s[i].type)
         IN  Strict(nxt, readLoopNew(s, content, contentBase, row, i + 1, nxt))

RECURSIVE readLoop(_, _, _, _, _, _)
readLoop(s, content, contentBase, row, i, st) ==
    IF i > Len(s) THEN st
    ELSE LET nxt == readStep(content, contentBase, row, st, s[i].type)
         IN  Strict(nxt, readLoop(s, content, contentBase, row, i + 1, nxt))

readEXPANew(s, content, contentBase, row) ==
    IF s = <<>> THEN ReadStart
    ELSE readLoopNew(s, content, contentBase, row, 1, ReadStart)

readEXPA(s, content, contentBase, row) ==
    IF s = <<>> THEN ReadStart
    ELSE readLoop(s, content, contentBase, row, 1, ReadStart)

----------------------------------------------------------------------------
(* The CHNK section as writeEXPA<expa> emits it and as readEXPA<expa>       *)
(* patches it into the image (EXPAnew.h).                                   *)

EXPA_MAGIC == 1095782469    \* 0x41505845
CHNK_MAGIC == 1263421507    \* 0x4B4E4843

RECURSIVE CHNKBytes(_)
\* per entry: offset, size of the payload, payload
CHNKBytes(list) ==
    IF list = <<>> THEN <<>>
    ELSE LE(Head(list).offset, 4) \o LE(Len(Head(list).value), 4)
         \o Head(list).value \o CHNKBytes(Tail(list))

CHNKSection(list) ==
    LE(CHNK_MAGIC, 4) \o LE(Len(list), 4) \o CHNKBytes(list)

RECURSIVE patchCHNK(_, _, _, _)
\* numEntry entries from position pos on: the 8 bytes at the entry's offset
\* become the address of its payload.  [content, pos, fault]
patchCHNK(image, base, pos, numEntry) ==
    IF numEntry = 0 THEN [content |-> image, pos |-> pos, fault |-> FALSE]
    ELSE IF ~Fits(image, pos, 8)
         THEN [content |-> image, pos |-> pos, fault |-> TRUE]
    ELSE LET offset == ReadLE(image, pos, 4)
             sz == ReadLE(image, pos + 4, 4)
             ptr == base + pos + 8
         IN  IF ~Fits(image, offset, 8) \/ sz < 0
             THEN [content |-> image, pos |-> pos, fault |-> TRUE]
             ELSE patchCHNK(WriteBytes(image, offset, LE(ptr, 8)), base,
                            pos + 8 + sz, numEntry - 1)

----------------------------------------------------------------------------
(* The dialects, and the structure resolver of EXPANew.cpp *)

Dialects == {"EXPA32", "EXPA64"}

\* StructureEntry
Field(name, type) == [name |-> name, type |-> type]

ALIGN_STEP(expa) == IF expa = "EXPA32" THEN 4 ELSE 8
HAS_STRUCTURE_SECTION(expa) == expa = "EXPA64"

\* enum class EntryType : uint32_t
TypeCode(type) ==
    CASE type = "UNK0" -> 0
      [] type = "UNK1" -> 1
      [] type = "INT32" -> 2
      [] type = "INT16" -> 3
      [] type = "INT8" -> 4
      [] type = "FLOAT" -> 5
      [] type = "STRING3" -> 6
      [] type = "STRING" -> 7
      [] type = "STRING2" -> 8
      [] type = "BOOL" -> 9
      [] type = "EMPTY" -> 10
      [] type = "INT_ARRAY" -> 100

\* read<EntryType>(stream): a code of no enumerator is kept as it is; every
\* switch over it takes its default branch
TypeOfCode(code) ==
    IF \E t \in EntryType : TypeCode(t) = code
    THEN CHOOSE t \in EntryType : TypeCode(t) = code
    ELSE "INVALID"

toString(type) ==
    CASE type = "UNK0" -> "unk0"
      [] type = "UNK1" -> "unk1"
      [] type = "INT32" -> "int32"
      [] type = "INT16" -> "int16"
      [] type = "INT8" -> "int8"
      [] type = "FLOAT" -> "float"
      [] type = "STRING3" -> "string3"
      [] type = "STRING" -> "string"
      [] type = "STRING2" -> "string2"
      [] type = "BOOL" -> "bool"
      [] type = "EMPTY" -> "empty"
      [] type = "INT_ARRAY" -> "int array"
      [] OTHER -> "invalid"

convertEntryTypeNew(val) ==
    CASE val = "int" -> "INT32"
      [] val = "int array" -> "INT_ARRAY"
      [] val = "float" -> "FLOAT"
      [] val = "int8" -> "INT8"
      [] val = "int16" -> "INT16"
      [] val = "int32" -> "INT32"
      [] val = "bool" -> "BOOL"
      [] val = "empty" -> "EMPTY"
      [] val = "string" -> "STRING"
      [] val = "string2" -> "STRING2"
      [] val = "string3" -> "STRING3"
      [] OTHER -> "EMPTY"

\* A key of a property tree is [text, matches]: its text, and the set of
\* strings boost::regex_search finds it in when the text is used as a
\* regular expression (for a table key: the strings wrapRegex(text) matches).
\* getTypeMap and convertEntryType of EXPA.cpp
convertEntryType(val) ==
    CASE val = "byte" -> "INT8"
      [] val = "short" -> "INT16"
      [] val = "int" -> "INT32"
      [] val = "int array" -> "INT_ARRAY"
      [] val = "float" -> "FLOAT"
      [] val = "int8" -> "INT8"
      [] val = "int16" -> "INT16"
      [] val = "int32" -> "INT32"
      [] val = "bool" -> "BOOL"
      [] val = "empty" -> "EMPTY"
      [] val = "string" -> "STRING"
      [] val = "string2" -> "STRING2"
      [] val = "string3" -> "STRING3"
      [] OTHER -> "EMPTY"

regex_search(str, key) == str \in key.matches

Resolved(es) == [thrown |-> FALSE, entries |-> es]
ParseError == [thrown |-> TRUE, entries |-> <<>>]

MinOf(set) == CHOOSE x \in set : \A y \in set : x <= y

RECURSIVE SplitPath(_, _)
\* the elements of a property-tree path: the name cut at every '.' (46);
\* seg is the element being collected
SplitPath(name, seg) ==
    IF name = <<>> THEN <<seg>>
    ELSE IF Head(name) = 46 THEN <<seg>> \o SplitPath(Tail(name), <<>>)
    ELSE SplitPath(Tail(name), Append(seg, Head(name)))

NotFound == [found |-> FALSE, fields |-> <<>>]
Found(fields) == [found |-> TRUE, fields |-> fields]

\* format.get_child_optional(tableName): the name is a path, so a name
\* without '.' finds the child with that key, a name "a.b" finds the child b
\* of the child a (a field, which has no children), and the empty name finds
\* format itself, whose children are the tables
get_child_optional(format, tableName) ==
    LET path == SplitPath(tableName, <<>>)
        top == {i \in 1..Len(format) : format[i].key.text = path[1]}
    IN  IF tableName = <<>>
        THEN Found([i \in 1..Len(format) |->
                       [key |-> format[i].key.text, data |-> ""]])
        ELSE IF top = {} THEN NotFound
        ELSE IF Len(path) = 1 THEN Found(format[MinOf(top)].fields)
        ELSE IF Len(path) = 2
                /\ \E j \in 1..Len(format[MinOf(top)].fields) :
                       format[MinOf(top)].fields[j].key = path[2]
        THEN Found(<<>>)
        ELSE NotFound

\* the folder: [isDirectory, hasIndex, indexParses, index, formats];
\* index is structures/structure.json as a sequence of [key, data], formats
\* maps a file name to [parses, tree], tree a sequence of [key, fields] and
\* fields a sequence of [key, data].  read_json throws on a file that does
\* not exist or does not parse.
getStructureFromFile(folder, filePath, tableName) ==
    IF ~folder.isDirectory THEN Resolved(<<>>)
    ELSE IF ~folder.hasIndex THEN Resolved(<<>>)
    ELSE IF ~folder.indexParses THEN ParseError
    ELSE LET hits == {i \in 1..Len(folder.index) :
                         regex_search(filePath, folder.index[i].key)}
             formatFile == IF hits = {} THEN ""
                           ELSE folder.index[MinOf(hits)].data
         IN  IF formatFile = "" THEN Resolved(<<>>)
             ELSE IF formatFile \notin DOMAIN folder.formats THEN ParseError
             ELSE IF ~folder.formats[formatFile].parses THEN ParseError
             ELSE LET format == folder.formats[formatFile].tree
                      child == get_child_optional(format, tableName)
                      byRegex == {i \in 1..Len(format) :
                                     regex_search(tableName, format[i].key)}
                  IN  IF ~child.found /\ byRegex = {} THEN Resolved(<<>>)
                      ELSE LET formatValue ==
                                   IF child.found THEN child.fields
                                   ELSE format[MinOf(byRegex)].fields
                           IN  Resolved([j \in 1..Len(formatValue) |->
                                   Field(formatValue[j].key,
                                         convertEntryTypeNew(formatValue[j].data))])

\* EXPA32::getStructure
getStructure32(folder, filePath, tableName) ==
    getStructureFromFile(folder, filePath, tableName)

\* EXPA64::getStructure.  image is the file, pos the stream position; the
\* result also carries the position after the in-band section.
getStructure64ByCount(folder, filePath, tableName, image, pos) ==
    LET structureCount == IF Fits(image, pos, 4) THEN ReadLE(image, pos, 4) ELSE 0
        inBand == [j \in 1..structureCount |->
                     LET type == TypeOfCode(
                                    IF Fits(image, pos + 4 * j, 4)
                                    THEN ReadLE(image, pos + 4 * j, 4) ELSE 0)
                     IN  Field(<<toString(type), j - 1>>, type)]
        fromFile == getStructureFromFile(folder, filePath, tableName)
        after == pos + 4 + 4 * structureCount
        chosen ==
            IF fromFile.entries = <<>> THEN inBand
            ELSE IF Len(fromFile.entries) # structureCount THEN inBand
            ELSE fromFile.entries
    IN  [thrown |-> fromFile.thrown, entries |-> chosen, pos |-> after,
         fault |-> ~Fits(image, pos, 4 + 4 * structureCount)]

\* a resolver that prefers the schema file whenever it has an entry
getStructure64FromFile(folder, filePath, tableName, image, pos) ==
    LET structureCount == IF Fits(image, pos, 4) THEN ReadLE(image, pos, 4) ELSE 0
        inBand == [j \in 1..structureCount |->
                     LET type == TypeOfCode(
                                    IF Fits(image, pos + 4 * j, 4)
                                    THEN ReadLE(image, pos + 4 * j, 4) ELSE 0)
                     IN  Field(<<toString(type), j - 1>>, type)]
        fromFile == getStructureFromFile(folder, filePath, tableName)
        after == pos + 4 + 4 * structureCount
        chosen ==
            IF fromFile.entries = <<>> THEN inBand
            ELSE fromFile.entries
    IN  [thrown |-> fromFile.thrown, entries |-> chosen, pos |-> after,
         fault |-> ~Fits(image, pos, 4 + 4 * structureCount)]

getStructure64(folder, filePath, tableName, image, pos) ==
    LET structureCount == IF Fits(image, pos, 4) THEN ReadLE(image, pos, 4) ELSE 0
        inBand == [j \in 1..structureCount |->
                     LET type == TypeOfCode(
                                    IF Fits(image, pos + 4 * j, 4)
                                    THEN ReadLE(image, pos + 4 * j, 4) ELSE 0)
                     IN  Field(<<toString(type), j - 1>>, type)]
        fromFile == getStructureFromFile(folder, filePath, tableName)
        after == pos + 4 + 4 * structureCount
        chosen ==
            IF fromFile.entries = <<>> THEN inBand
            ELSE IF Len(fromFile.entries) # structureCount THEN inBand
            ELSE IF \E j \in 1..structureCount :
                        inBand[j].type # fromFile.entries[j].type THEN inBand
            ELSE fromFile.entries
    IN  [thrown |-> fromFile.thrown, entries |-> chosen, pos |-> after,
         fault |-> ~Fits(image, pos, 4 + 4 * structureCount)]

----------------------------------------------------------------------------
(* writeEXPA<expa>(file, path) of EXPAnew.h, one table at a time.  The      *)
(* stream is [out, pos]: the bytes of the file so far and tellp(); bytes    *)
(* skipped by seekp read as zero once something is written after them.      *)

NewStream == [out |-> <<>>, pos |-> 0]

Put(st, bytes) ==
    [out |-> (IF st.pos > Len(st.out)
              THEN st.out \o Fill(st.pos - Len(st.out), 0) ELSE st.out) \o bytes,
     pos |-> st.pos + Len(bytes)]

\* write(stream, table.name, nameSize): the name, zero-padded to nameSize
NameBytes(name, nameSize) ==
    [i \in 1..nameSize |-> IF i <= Len(name) THEN name[i] ELSE 0]

\* the EntryType codes of the structure section
TypeBytes(s) ==
    [i \in 1..(4 * Len(s)) |->
        LE(TypeCode(s[((i - 1) \div 4) + 1].type), 4)[((i - 1) % 4) + 1]]

\* write(stream, EXPA_MAGIC); write(stream, tables.size())
writeHeader(tf) == Put(Put(NewStream, LE(EXPA_MAGIC, 4)), LE(Len(tf), 4))

RECURSIVE writeRows(_, _, _, _, _)
\* the rows of one table: each in a fresh buffer of 0xCC, encoded at tellp()
writeRows(s, actualStructureSize, rows, i, acc) ==
    IF i > Len(rows) \/ acc.thrown THEN acc
    ELSE writeRows(s, actualStructureSize, rows, i + 1,
            With(writeEXPANew(s, acc.stream.pos,
                              Fill(actualStructureSize, 204), rows[i]),
                 LAMBDA r :
                    IF r.thrown THEN [acc EXCEPT !.thrown = TRUE]
                    ELSE [acc EXCEPT !.stream = Put(@, r.data),
                                     !.chnk = @ \o r.chunk,
                                     !.over = @ \/ r.over]))

\* the table header up to the aligned start of the rows; rowSize is where
\* the declared row size went
\* a header after which the cursor is not moved up to a multiple of 8
writeTableHeaderNoSeek(expa, st, table, structureSize) ==
    LET nameSize == ceilInteger(Len(table.name) + 1, 4)
        a == Put(Put(st, LE(nameSize, 4)), NameBytes(table.name, nameSize))
        b == IF HAS_STRUCTURE_SECTION(expa)
             THEN Put(Put(a, LE(Len(table.structure), 4)), TypeBytes(table.structure))
             ELSE a
        c == Put(Put(b, LE(structureSize, 4)), LE(Len(table.entries), 4))
    IN  [stream |-> c, rowSize |-> b.pos]

writeTableHeader(expa, st, table, structureSize) ==
    LET nameSize == ceilInteger(Len(table.name) + 1, 4)
        a == Put(Put(st, LE(nameSize, 4)), NameBytes(table.name, nameSize))
        b == IF HAS_STRUCTURE_SECTION(expa)
             THEN Put(Put(a, LE(Len(table.structure), 4)), TypeBytes(table.structure))
             ELSE a
        c == Put(Put(b, LE(structureSize, 4)), LE(Len(table.entries), 4))
    IN  [stream |-> [c EXCEPT !.pos = ceilInteger(@, 8)], rowSize |-> b.pos]

\* one iteration of the loop over file.tables
writeTable(expa, st, table) ==
    With(getEXPASizeNew(table.structure), LAMBDA structureSize :
    With(writeTableHeader(expa, st, table, structureSize), LAMBDA head :
    With(writeRows(table.structure, ceilInteger(structureSize, 8),
                   table.entries, 1,
                   [stream |-> head.stream, chnk |-> <<>>, thrown |-> FALSE,
                    over |-> FALSE]),
         LAMBDA rows :
            [stream |-> rows.stream, chnk |-> rows.chnk, thrown |-> rows.thrown,
             where |-> [header |-> st.pos, rowSize |-> head.rowSize,
                        data |-> head.stream.pos,
                        rowBytes |-> ceilInteger(structureSize, 8),
                        over |-> rows.over]])))

\* write(stream, CHNK_MAGIC); write(stream, chnk.size()); the entries
\* a CHNK section with the entries in reverse order
writeCHNKReversed(st, list) ==
    Put(st, CHNKSection([i \in 1..Len(list) |-> list[Len(list) + 1 - i]]))

writeCHNK(st, list) == Put(st, CHNKSection(list))

----------------------------------------------------------------------------
(* readEXPA<expa>(path) of EXPAnew.h, one loop iteration at a time.  A read *)
(* past the end of the file leaves the value read indeterminate; such a     *)
(* step is marked fault.                                                    *)

U32(image, pos) == IF Fits(image, pos, 4) THEN ReadLE(image, pos, 4) ELSE 0

\* read<EXPAHeader>(stream)
readHeader(image) ==
    [magic |-> U32(image, 0), tableCount |-> U32(image, 4), pos |-> 8,
     fault |-> ~Fits(image, 0, 8)]

\* std::string name(nameData.data()): the bytes before the first NUL
CString(image, pos) ==
    [i \in 1..(CStringEnd(image, pos) - pos) |-> image[pos + i]]

\* the comparison with the declared row size, made after rounding it up
sizeMismatchRounded(structureSize, entrySize) ==
    structureSize # ceilInteger(entrySize, 8)

\* if (structureSize != entrySize) return std::unexpected(...)
sizeMismatch(structureSize, entrySize) == structureSize # entrySize

\* the name of a table: [name, pos, fault], pos after nameData
readName(expa, image, pos) ==
    LET p0 == ceilInteger(pos, ALIGN_STEP(expa))
        nameLength == U32(image, p0)
        inside == Fits(image, p0, 4) /\ Fits(image, p0 + 4, nameLength)
    IN  [name |-> IF inside THEN CString(image, p0 + 4) ELSE <<>>,
         pos |-> p0 + 4 + nameLength,
         fault |-> ~inside \/ CStringEnd(image, p0 + 4) >= p0 + 4 + nameLength]

\* expa::getStructure(stream, path, name): [thrown, entries, pos, fault]
getStructure(expa, folder, filePath, tableName, image, pos) ==
    IF expa = "EXPA64"
    THEN getStructure64(folder, filePath, tableName, image, pos)
    ELSE With(getStructure32(folder, filePath, tableName), LAMBDA r :
            [thrown |-> r.thrown, entries |-> r.entries, pos |-> pos,
             fault |-> FALSE])

\* one iteration of the loop over the tables
readTable(expa, folder, filePath, image, pos) ==
    With(readName(expa, image, pos), LAMBDA nm :
    With(getStructure(expa, folder, filePath, nm.name, image, nm.pos), LAMBDA got :
    With(getEXPASizeNew(got.entries), LAMBDA structureSize :
        LET entrySize == U32(image, got.pos)
            entryCount == U32(image, got.pos + 4)
            dataOffset == ceilInteger(got.pos + 8, 8)
        IN  [entry |-> [name |-> nm.name, dataOffset |-> dataOffset,
                        entryCount |-> entryCount, entrySize |-> entrySize,
                        structure |-> got.entries],
             pos |-> dataOffset + entryCount * ceilInteger(entrySize, 8),
             mismatch |-> sizeMismatch(structureSize, entrySize),
             thrown |-> got.thrown,
             fault |-> nm.fault \/ got.fault \/ ~Fits(image, got.pos, 8)])))

\* a CHNK header taken for good whatever its magic is
readCHNKHeaderUnchecked(expa, image, pos) ==
    LET p == ceilInteger(pos, ALIGN_STEP(expa))
    IN  [magic |-> CHNK_MAGIC, numEntry |-> U32(image, p + 4), pos |-> p + 8,
         fault |-> ~Fits(image, p, 8)]

\* read<CHNKHeader>(stream), after alignStream<ALIGN_STEP>
readCHNKHeader(expa, image, pos) ==
    LET p == ceilInteger(pos, ALIGN_STEP(expa))
    IN  [magic |-> U32(image, p), numEntry |-> U32(image, p + 4), pos |-> p + 8,
         fault |-> ~Fits(image, p, 8)]

\* one iteration of the loop over the CHNK entries: offset and size come
\* from the stream, the pointer goes into content
\* a patch with the address of the CHNK entry, not of its payload
patchEntryAtHeader(image, content, base, pos) ==
    LET offset == U32(image, pos)
        sz == U32(image, pos + 4)
        ptr == base + pos
        inside == Fits(image, pos, 8) /\ Fits(content, offset, 8) /\ sz >= 0
    IN  [content |-> IF inside THEN WriteBytes(content, offset, LE(ptr, 8))
                     ELSE content,
         pos |-> pos + 8 + (IF sz >= 0 THEN sz ELSE 0),
         fault |-> ~inside,
         outside |-> Fits(image, pos, 8) /\ ~Fits(content, offset, 8)]

patchEntry(image, content, base, pos) ==
    LET offset == U32(image, pos)
        sz == U32(image, pos + 4)
        ptr == base + pos + 8
        inside == Fits(image, pos, 8) /\ Fits(content, offset, 8) /\ sz >= 0
    IN  [content |-> IF inside THEN WriteBytes(content, offset, LE(ptr, 8))
                     ELSE content,
         pos |-> pos + 8 + (IF sz >= 0 THEN sz ELSE 0),
         fault |-> ~inside,
         outside |-> Fits(image, pos, 8) /\ ~Fits(content, offset, 8)]

\* std::expected<FinalFile, std::string>
NoFile == [tables |-> <<>>]
NoResult == [ok |-> FALSE, error |-> "", value |-> NoFile]
Expected(value) == [ok |-> TRUE, error |-> "", value |-> value]
Unexpected(error) == [ok |-> FALSE, error |-> error, value |-> NoFile]
\* an exception of read_json leaves readEXPA<expa> without a return value
Thrown == [ok |-> FALSE, error |-> "exception", value |-> NoFile]

LacksEXPA == "Given file lacks EXPA header."
LacksCHNK == "Given file lacks CHNK header."
SizeMismatch == "Structure size doesn't match entry size."

RECURSIVE decodeRows(_, _, _, _, _, _)
\* the rows of one table, entryCount of them, increase bytes apart
decodeRows(table, image, base, i, offset, acc) ==
    IF i >= table.entryCount THEN acc
    ELSE decodeRows(table, image, base, i + 1,
                    offset + ceilInteger(table.entrySize, 8),
            With(readEXPANew(table.structure, image, base, offset), LAMBDA r :
                    [values |-> Append(acc.values, r.values),
                     fault |-> acc.fault \/ r.fault]))

\* one iteration of the loop that builds finalTable
decodeTable(table, image, base) ==
    With(decodeRows(table, image, base, 0, table.dataOffset,
                    [values |-> <<>>, fault |-> FALSE]),
         LAMBDA rows :
            [table |-> [name |-> table.name,
                        structure |-> table.structure,
                        entries |-> rows.values],
             fault |-> rows.fault])

----------------------------------------------------------------------------
(* Inputs of the codec: structures and the rows valid for them *)

Revisions == {"EXPANew", "EXPA"}

\* a structure with the given types, named as a schema file would name them
Named(types) == [i \in 1..Len(types) |-> Field(<<"field", i>>, types[i])]

RECURSIVE TypeSeqs(_)
\* every sequence of at most n types
TypeSeqs(n) ==
    IF n = 0 THEN {<<>>}
    ELSE LET shorter == TypeSeqs(n - 1)
         IN  shorter \cup {Append(ts, t) : ts \in {x \in shorter : Len(x) = n - 1},
                                           t \in EntryType}

Bools(n) == [i \in 1..n |-> "BOOL"]

\* runs of BOOL fields around the 32-bit word boundary, alone, after an
\* INT8 and before an INT32 or an INT8
LongBoolTypes ==
    {pre \o Bools(n) \o post :
        pre \in {<<>>, <<"INT8">>},
        n \in (MaxBools - 2)..MaxBools,
        post \in {<<>>, <<"INT32">>, <<"INT8">>}}

\* the structures of the seed scenarios and of runs split by other fields
SeedTypes ==
    {<<"INT32", "INT16", "INT8">>,
     <<"BOOL", "BOOL", "INT32">>,
     <<"BOOL", "BOOL", "BOOL">>,
     <<"INT8", "BOOL", "INT8">>,
     <<"BOOL", "INT8", "BOOL">>,
     <<"BOOL", "EMPTY", "BOOL">>,
     <<"INT8", "STRING", "INT_ARRAY">>,
     <<"BOOL", "BOOL", "INT8", "BOOL">>}

StringOf(n) == [i \in 1..n |-> 103 + i]      \* "h", "hi", "hij", ...

ArrayElem(i) == IF i <= 3 THEN i ELSE IF i = 4 THEN -2 ELSE 254 + i
ArrayOf(n) == [i \in 1..n |-> ArrayElem(i)]  \* <<1>>, <<1, 2>>, <<1, 2, 3>>, ...

Values(type) ==
    CASE type = "INT32" -> {EntryValue("i32", <<42>>), EntryValue("i32", <<-2>>)}
      [] type = "INT16" -> {EntryValue("i16", <<-1>>), EntryValue("i16", <<258>>)}
      [] type = "INT8" -> {EntryValue("i8", <<7>>), EntryValue("i8", <<-128>>)}
      [] type = "FLOAT" -> {EntryValue("f32", <<0>>),
                            EntryValue("f32", <<1065353216>>)}
      [] type \in StringTypes -> {EntryValue("string", <<>>),
                                  EntryValue("string", StringOf(2))}
      [] type = "BOOL" -> {EntryValue("bool", <<0>>), EntryValue("bool", <<1>>)}
      [] type = "INT_ARRAY" -> {EntryValue("vec", <<>>),
                                EntryValue("vec", ArrayOf(MaxArrayLen))}
      [] OTHER -> {EntryValue("none", <<>>)}

RECURSIVE Rows(_)
\* every row over Values for the types
Rows(types) ==
    IF types = <<>> THEN {<<>>}
    ELSE {<<v>> \o r : v \in Values(Head(types)), r \in Rows(Tail(types))}

\* rows for a long structure: the BOOL cells alternate from true, are all
\* true or are all false; the other cells hold one value
PatternRows(types) ==
    {[i \in 1..Len(types) |->
        IF types[i] = "BOOL"
        THEN EntryValue("bool", <<IF pat = 0 THEN i % 2 ELSE pat - 1>>)
        ELSE IF types[i] = "INT32" THEN EntryValue("i32", <<9>>)
        ELSE EntryValue("i8", <<7>>)] : pat \in 0..2}

\* one cell of every string length and of every array length
LengthInputs ==
    {[types |-> <<"STRING">>, row |-> <<EntryValue("string", StringOf(n))>>] :
        n \in 0..MaxStrLen}
    \cup {[types |-> <<"INT_ARRAY">>, row |-> <<EntryValue("vec", ArrayOf(n))>>] :
        n \in 0..MaxArrayLen}

CodecInputs ==
    UNION {{[types |-> ts, row |-> r] : r \in Rows(ts)} :
           ts \in TypeSeqs(MaxFields) \cup SeedTypes}
    \cup UNION {{[types |-> ts, row |-> r] : r \in PatternRows(ts)} :
                ts \in LongBoolTypes}
    \cup LengthInputs
    \cup {[types |-> <<"BOOL", "BOOL", "INT32">>,
           row |-> <<EntryValue("bool", <<1>>), EntryValue("bool", <<1>>),
                     EntryValue("i32", <<9>>)>>],
          [types |-> <<"INT32", "INT16", "INT8">>,
           row |-> <<EntryValue("i32", <<42>>), EntryValue("i16", <<-1>>),
                     EntryValue("i8", <<7>>)>>]}

\* file offsets a row is written at, and addresses an image is loaded at
RowOffsets == {0, 24}
ContentBases == {4096, 20480}

----------------------------------------------------------------------------
(* Inputs of the container: files of up to MaxTables tables of up to        *)
(* MaxRows rows, and the structures/ folder.                                *)

FilePath == "table.expa"

\* the structures of the tables; table i is named by i letters from "a"
TablePool ==
    <<<<"INT32", "INT16", "INT8">>,
      <<"BOOL", "BOOL">>,
      <<"INT32">>,
      <<"STRING", "INT32">>,
      <<"INT_ARRAY">>,
      <<"INT8", "BOOL", "INT8">>,
      <<"INT32", "INT32">>,
      <<"FLOAT", "EMPTY", "STRING2">>,
      <<"INT32", "INT16">>>>

NameOf(i) == [k \in 1..i |-> 96 + k]

\* the cell of row k: odd rows hold the larger values, even rows the others
ValueOf(type, k) ==
    CASE type = "INT32" -> EntryValue("i32", <<IF k % 2 = 1 THEN 42 ELSE -2>>)
      [] type = "INT16" -> EntryValue("i16", <<IF k % 2 = 1 THEN -1 ELSE 258>>)
      [] type = "INT8" -> EntryValue("i8", <<IF k % 2 = 1 THEN 7 ELSE -128>>)
      [] type = "FLOAT" -> EntryValue("f32", <<IF k % 2 = 1 THEN 1065353216 ELSE 0>>)
      [] type \in StringTypes ->
            EntryValue("string", IF k % 2 = 1 THEN StringOf(2) ELSE <<>>)
      [] type = "BOOL" -> EntryValue("bool", <<k % 2>>)
      [] type = "INT_ARRAY" ->
            EntryValue("vec", IF k % 2 = 1 THEN ArrayOf(MaxArrayLen) ELSE <<>>)
      [] OTHER -> EntryValue("none", <<>>)

RowOf(types, k) == [i \in 1..Len(types) |-> ValueOf(types[i], k)]

\* FinalTable
Table(name, types, n) ==
    [name |-> name, structure |-> Named(types),
     entries |-> [k \in 1..n |-> RowOf(types, k)]]

PoolTable(i, n) == Table(NameOf(i), TablePool[i], n)

\* files of consecutive tables of the pool, and one table with a run of
\* MaxBools BOOL fields
FileInputs ==
    {[tables |-> [j \in 1..m |->
                    PoolTable(((i + j - 2) % Len(TablePool)) + 1, n)]] :
        i \in 1..Len(TablePool), m \in 0..MaxTables, n \in 0..MaxRows}
    \cup {[tables |-> <<Table(NameOf(1), Bools(MaxBools), n)>>] : n \in 0..1}

\* no structures/ folder next to the file
FsNone ==
    [isDirectory |-> FALSE, hasIndex |-> FALSE, indexParses |-> FALSE,
     index |-> <<>>, formats |-> <<>>]

\* a structures/ folder whose index maps the file to one schema file that
\* lists every table of tf under its own name, with its fields
FsDescribing(tf) ==
    [isDirectory |-> TRUE, hasIndex |-> TRUE, indexParses |-> TRUE,
     index |-> <<[key |-> [text |-> FilePath, matches |-> {FilePath}],
                  data |-> "format.json"]>>,
     formats |-> [f \in {"format.json"} |->
        [parses |-> TRUE,
         tree |-> [t \in 1..Len(tf.tables) |->
            [key |-> [text |-> tf.tables[t].name,
                      matches |-> {tf.tables[t].name}],
             fields |-> [j \in 1..Len(tf.tables[t].structure) |->
                [key |-> tf.tables[t].structure[j].name,
                 data |-> toString(tf.tables[t].structure[j].type)]]]]]]]

\* a structures/ folder whose structure.json is not JSON
FsBadIndex ==
    [isDirectory |-> TRUE, hasIndex |-> TRUE, indexParses |-> FALSE,
     index |-> <<>>, formats |-> <<>>]

\* a structures/ folder whose index selects a schema file that is not JSON
FsBadFormat ==
    [isDirectory |-> TRUE, hasIndex |-> TRUE, indexParses |-> TRUE,
     index |-> <<[key |-> [text |-> FilePath, matches |-> {FilePath}],
                  data |-> "format.json"]>>,
     formats |-> [f \in {"format.json"} |-> [parses |-> FALSE, tree |-> <<>>]]]

\* the variables of the container while only the codec runs, and those of
\* the codec while only the container runs
ContainerIdle ==
    /\ dialect = "EXPA64"
    /\ file = NoFile
    /\ fs = FsNone
    /\ wpc = "idle"
    /\ stream = NewStream
    /\ chnk = <<>>
    /\ layout = <<>>
    /\ rpc = "idle"
    /\ rpos = 0
    /\ tables = <<>>
    /\ left = 0
    /\ finalTable = <<>>
    /\ fault = FALSE
    /\ outside = FALSE
    /\ result = NoResult
    /\ pass = 1
    /\ firstOut = <<>>
    /\ tampered = FALSE

SchemaIdle ==
    /\ query = [op |-> "none"]
    /\ answer = [done |-> FALSE]

CodecIdle ==
    /\ rev = "EXPANew"
    /\ structure = <<>>
    /\ entries = <<>>
    /\ rowOffset = 0
    /\ pc = "idle"
    /\ size = 0
    /\ wr = WriteStart(<<>>)
    /\ rd = ReadStart

----------------------------------------------------------------------------
(* The codec run: getEXPASize, writeEXPA into a buffer of 0xCC, readEXPA    *)
(* from an image that holds the row and its patched CHNK section.           *)

Init ==
    /\ rev \in Revisions
    /\ \E in \in CodecInputs :
          /\ structure = Named(in.types)
          /\ entries = in.row
    /\ rowOffset = 0
    /\ pc = "new"
    /\ size = 0
    /\ wr = WriteStart(<<>>)
    /\ mem = <<>>
    /\ memBase = 0
    /\ rd = ReadStart
    /\ ContainerIdle
    /\ SchemaIdle

GetSize ==
    /\ pc = "new"
    /\ size' = IF rev = "EXPANew" THEN getEXPASizeNew(structure)
               ELSE getEXPASize(structure)
    /\ pc' = "sized"
    /\ UNCHANGED <<rev, structure, entries, rowOffset, wr, rd>>
    /\ UNCHANGED <<memVars, writerVars, readerVars, fileVars, schemaVars>>

\* EXPANew: the caller (the container writer) allocates
\* ceilInteger<8>(getEXPASize()) bytes of 0xCC and passes the file offset
WriteNew ==
    /\ pc = "sized"
    /\ rev = "EXPANew"
    /\ \E b \in RowOffsets :
          /\ rowOffset' = b
          /\ wr' = writeEXPANew(structure, b, Fill(ceilInteger(size, 8), 204),
                                entries)
    /\ pc' = "written"
    /\ UNCHANGED <<rev, structure, entries, size, rd>>
    /\ UNCHANGED <<memVars, writerVars, readerVars, fileVars, schemaVars>>

Write ==
    /\ pc = "sized"
    /\ rev = "EXPA"
    /\ wr' = writeEXPA(structure, entries)
    /\ pc' = "written"
    /\ UNCHANGED <<rev, structure, entries, rowOffset, size, rd>>
    /\ UNCHANGED <<memVars, writerVars, readerVars, fileVars, schemaVars>>

\* the image: rowOffset bytes, the row, the CHNK section; patched as the
\* container reader patches it
RowImage == Fill(rowOffset, 0) \o wr.data \o CHNKSection(wr.chunk)

Read ==
    /\ pc = "written"
    /\ ~wr.thrown
    /\ \E base \in ContentBases :
          LET p == patchCHNK(RowImage, base, rowOffset + Len(wr.data) + 8,
                             Len(wr.chunk))
          IN  /\ mem' = p.content
              /\ memBase' = base
              /\ rd' = IF rev = "EXPANew"
                       THEN readEXPANew(structure, p.content, base, rowOffset)
                       ELSE readEXPA(structure, p.content, base, rowOffset)
    /\ pc' = "read"
    /\ UNCHANGED <<rev, structure, entries, rowOffset, size, wr>>
    /\ UNCHANGED <<writerVars, readerVars, fileVars, schemaVars>>

Next == GetSize \/ WriteNew \/ Write \/ Read

Spec == Init /\ [][Next]_vars

----------------------------------------------------------------------------
(* The container run: writeEXPA<expa>(file, path), then readEXPA<expa>(path) *)
(* of what is on disk, then writeEXPA<expa> of what was read.               *)

InitFile ==
    /\ CodecIdle
    /\ mem = <<>>
    /\ memBase = 0
    /\ dialect \in Dialects
    /\ file \in FileInputs
    /\ fs \in {FsNone, FsDescribing(file), FsBadIndex, FsBadFormat}
    /\ wpc = "start"
    /\ stream = NewStream
    /\ chnk = <<>>
    /\ layout = <<>>
    /\ rpc = "idle"
    /\ rpos = 0
    /\ tables = <<>>
    /\ left = 0
    /\ finalTable = <<>>
    /\ fault = FALSE
    /\ outside = FALSE
    /\ result = NoResult
    /\ pass = 1
    /\ firstOut = <<>>
    /\ tampered = FALSE
    /\ SchemaIdle

StartWrite ==
    /\ wpc = "start"
    /\ stream' = writeHeader(file.tables)
    /\ chnk' = <<>>
    /\ layout' = <<>>
    /\ wpc' = "tables"
    /\ UNCHANGED <<codecVars, memVars, readerVars, fileVars, schemaVars>>

\* an exception of Structure::writeEXPA leaves writeEXPA<expa> at once
WriteTable ==
    /\ wpc = "tables"
    /\ Len(layout) < Len(file.tables)
    /\ \E w \in {writeTable(dialect, stream, file.tables[Len(layout) + 1])} :
           /\ stream' = w.stream
           /\ chnk' = chnk \o w.chnk
           /\ layout' = Append(layout, w.where)
           /\ wpc' = IF w.thrown THEN "thrown" ELSE "tables"
    /\ UNCHANGED <<codecVars, memVars, readerVars, fileVars, schemaVars>>

WriteCHNK ==
    /\ wpc = "tables"
    /\ Len(layout) = Len(file.tables)
    /\ stream' = writeCHNK(stream, chnk)
    /\ wpc' = "done"
    /\ UNCHANGED <<chnk, layout>>
    /\ UNCHANGED <<codecVars, memVars, readerVars, fileVars, schemaVars>>

\* the file on disk comes from elsewhere: one table declares another row_size
Tamper ==
    /\ wpc = "done"
    /\ rpc = "idle"
    /\ pass = 1
    /\ ~tampered
    /\ \E t \in 1..Len(layout), d \in {-1, 1, 8} :
          LET declared == U32(stream.out, layout[t].rowSize)
          IN  /\ declared + d >= 0
              /\ stream' = [stream EXCEPT
                               !.out = WriteBytes(@, layout[t].rowSize,
                                                  LE(declared + d, 4))]
    /\ tampered' = TRUE
    /\ UNCHANGED <<wpc, chnk, layout, dialect, file, fs, pass, firstOut>>
    /\ UNCHANGED <<codecVars, memVars, readerVars, schemaVars>>

\* where writeEXPA<expa> put the CHNK header
WrittenCHNKAt == Len(stream.out) - Len(CHNKSection(chnk))

\* the file on disk comes from elsewhere: the EXPA or the CHNK magic is
\* another number
CorruptMagic ==
    /\ wpc = "done"
    /\ rpc = "idle"
    /\ pass = 1
    /\ ~tampered
    /\ \E at \in {0, WrittenCHNKAt}, magic \in {0, EXPA_MAGIC, CHNK_MAGIC} :
          /\ magic # U32(stream.out, at)
          /\ stream' = [stream EXCEPT !.out = WriteBytes(@, at, LE(magic, 4))]
    /\ tampered' = TRUE
    /\ UNCHANGED <<wpc, chnk, layout, dialect, file, fs, pass, firstOut>>
    /\ UNCHANGED <<codecVars, memVars, readerVars, schemaVars>>

\* the file on disk comes from elsewhere: it ends early, in the last row,
\* in the CHNK header or in the last payload
Truncate ==
    /\ wpc = "done"
    /\ rpc = "idle"
    /\ pass = 1
    /\ ~tampered
    /\ \E n \in {WrittenCHNKAt - 1, WrittenCHNKAt + 4, Len(stream.out) - 2} :
          /\ n >= 8
          /\ n < Len(stream.out)
          /\ stream' = [stream EXCEPT !.out = SubSeq(@, 1, n)]
    /\ tampered' = TRUE
    /\ UNCHANGED <<wpc, chnk, layout, dialect, file, fs, pass, firstOut>>
    /\ UNCHANGED <<codecVars, memVars, readerVars, schemaVars>>

\* the file on disk comes from elsewhere: the first CHNK entry names a slot
\* (field 0) or a payload size (field 4) that reaches past the end of the file
CorruptCHNK ==
    /\ wpc = "done"
    /\ rpc = "idle"
    /\ pass = 1
    /\ ~tampered
    /\ chnk # <<>>
    /\ \E field \in {0, 4} :
          stream' = [stream EXCEPT
                        !.out = WriteBytes(@, WrittenCHNKAt + 8 + field,
                                           LE(Len(stream.out), 4))]
    /\ tampered' = TRUE
    /\ UNCHANGED <<wpc, chnk, layout, dialect, file, fs, pass, firstOut>>
    /\ UNCHANGED <<codecVars, memVars, readerVars, schemaVars>>

StartRead ==
    /\ wpc = "done"
    /\ rpc = "idle"
    /\ pass = 1
    /\ \E base \in ContentBases : memBase' = base
    /\ mem' = stream.out
    /\ \E header \in {readHeader(stream.out)} :
           /\ fault' = header.fault
           /\ outside' = FALSE
           /\ IF header.magic # EXPA_MAGIC
              THEN /\ result' = Unexpected(LacksEXPA)
                   /\ rpc' = "done"
                   /\ UNCHANGED <<rpos, left>>
              ELSE /\ rpc' = "tables"
                   /\ rpos' = header.pos
                   /\ left' = IF header.tableCount > 0 THEN header.tableCount ELSE 0
                   /\ UNCHANGED result
    /\ tables' = <<>>
    /\ finalTable' = <<>>
    /\ UNCHANGED <<codecVars, writerVars, fileVars, schemaVars>>

ReadTable ==
    /\ rpc = "tables"
    /\ left > 0
    /\ \E r \in {readTable(dialect, fs, FilePath, stream.out, rpos)} :
           IF r.thrown
           THEN /\ result' = Thrown
                /\ rpc' = "done"
                /\ UNCHANGED <<rpos, tables, left, fault>>
           ELSE /\ tables' = Append(tables, r.entry)
                /\ rpos' = r.pos
                /\ fault' = (fault \/ r.fault)
                /\ IF r.mismatch
                   THEN /\ result' = Unexpected(SizeMismatch)
                        /\ rpc' = "done"
                        /\ UNCHANGED left
                   ELSE /\ left' = left - 1
                        /\ UNCHANGED <<result, rpc>>
    /\ UNCHANGED <<finalTable, outside>>
    /\ UNCHANGED <<codecVars, memVars, writerVars, fileVars, schemaVars>>

\* the CHNK header read while tables are still to be parsed
ReadCHNKHeaderEarly ==
    /\ rpc = "tables"
    /\ \E chunkHeader \in {readCHNKHeader(dialect, stream.out, rpos)} :
           /\ fault' = (fault \/ chunkHeader.fault)
           /\ IF chunkHeader.magic # CHNK_MAGIC
              THEN /\ result' = Unexpected(LacksCHNK)
                   /\ rpc' = "done"
                   /\ UNCHANGED <<rpos, left>>
              ELSE /\ rpos' = chunkHeader.pos
                   /\ left' = IF chunkHeader.numEntry > 0
                              THEN chunkHeader.numEntry ELSE 0
                   /\ rpc' = IF chunkHeader.numEntry > 0 THEN "patch" ELSE "decode"
                   /\ UNCHANGED result
    /\ UNCHANGED <<tables, finalTable, outside>>
    /\ UNCHANGED <<codecVars, memVars, writerVars, fileVars, schemaVars>>

ReadCHNKHeader ==
    /\ rpc = "tables"
    /\ left = 0
    /\ \E chunkHeader \in {readCHNKHeader(dialect, stream.out, rpos)} :
           /\ fault' = (fault \/ chunkHeader.fault)
           /\ IF chunkHeader.magic # CHNK_MAGIC
              THEN /\ result' = Unexpected(LacksCHNK)
                   /\ rpc' = "done"
                   /\ UNCHANGED <<rpos, left>>
              ELSE /\ rpos' = chunkHeader.pos
                   /\ left' = IF chunkHeader.numEntry > 0
                              THEN chunkHeader.numEntry ELSE 0
                   /\ rpc' = IF chunkHeader.numEntry > 0 THEN "patch" ELSE "decode"
                   /\ UNCHANGED result
    /\ UNCHANGED <<tables, finalTable, outside>>
    /\ UNCHANGED <<codecVars, memVars, writerVars, fileVars, schemaVars>>

PatchEntry ==
    /\ rpc = "patch"
    /\ left > 0
    /\ \E p \in {patchEntry(stream.out, mem, memBase, rpos)} :
           /\ mem' = p.content
           /\ rpos' = p.pos
           /\ fault' = (fault \/ p.fault)
           /\ outside' = (outside \/ p.outside)
    /\ left' = left - 1
    /\ rpc' = IF left = 1 THEN "decode" ELSE "patch"
    /\ UNCHANGED <<memBase, tables, finalTable, result>>
    /\ UNCHANGED <<codecVars, writerVars, fileVars, schemaVars>>

DecodeTable ==
    /\ rpc = "decode"
    /\ Len(finalTable) < Len(tables)
    /\ \E d \in {decodeTable(tables[Len(finalTable) + 1], mem, memBase)} :
           /\ finalTable' = Append(finalTable, d.table)
           /\ fault' = (fault \/ d.fault)
           /\ outside' = (outside \/ d.fault)
    /\ UNCHANGED <<rpc, rpos, tables, left, result>>
    /\ UNCHANGED <<codecVars, memVars, writerVars, fileVars, schemaVars>>

\* return FinalFile{finalTable}
Return ==
    /\ rpc = "decode"
    /\ Len(finalTable) = Len(tables)
    /\ result' = Expected([tables |-> finalTable])
    /\ rpc' = "done"
    /\ UNCHANGED <<rpos, tables, left, finalTable, fault, outside>>
    /\ UNCHANGED <<codecVars, memVars, writerVars, fileVars, schemaVars>>

\* writeEXPA<expa>(readEXPA<expa>(path).value(), path)
Rewrite ==
    /\ rpc = "done"
    /\ result.ok
    /\ pass = 1
    /\ ~tampered
    /\ file' = result.value
    /\ firstOut' = stream.out
    /\ pass' = 2
    /\ wpc' = "start"
    /\ stream' = NewStream
    /\ UNCHANGED <<chnk, layout, dialect, fs, tampered>>
    /\ UNCHANGED <<codecVars, memVars, readerVars, schemaVars>>

NextFile ==
    \/ StartWrite
    \/ WriteTable
    \/ WriteCHNK
    \/ Tamper
    \/ CorruptMagic
    \/ Truncate
    \/ CorruptCHNK
    \/ StartRead
    \/ ReadTable
    \/ ReadCHNKHeader
    \/ PatchEntry
    \/ DecodeTable
    \/ Return
    \/ Rewrite

SpecFile == InitFile /\ [][NextFile]_vars

(***************************************************************************)
(* The schema resolver on its own: one call of convertEntryType, of        *)
(* getStructureFromFile or of EXPA64::getStructure on inputs drawn from    *)
(* small sets.                                                             *)
(***************************************************************************)

\* the strings a schema file may give as a field's type: the documented
\* ones, and some that are not
TypeStrings ==
    {"byte", "short", "int", "int array", "float", "int8", "int16", "int32",
     "bool", "empty", "string", "string2", "string3",
     "", "long", "INT32", "int ", "double"}

\* table names: "t1", "t2", "t.x", "t" and "zz", and the field name "x"
Names ==
    [t1 |-> <<116, 49>>, t2 |-> <<116, 50>>, tdotx |-> <<116, 46, 120>>,
     t |-> <<116>>, zz |-> <<122, 122>>, x |-> <<120>>]

\* keys of a schema file: [text, matches], matches the names the key matches
\* in full as a regex.  A plain name matches itself ("t.x" as a regex matches
\* "t.x" too); any is "t.*" and digit is "t[0-9]"
Keys ==
    [t1 |-> [text |-> Names.t1, matches |-> {Names.t1}],
     tdotx |-> [text |-> Names.tdotx, matches |-> {Names.tdotx}],
     t |-> [text |-> Names.t, matches |-> {Names.t}],
     any |-> [text |-> <<116, 46, 42>>,
              matches |-> {Names.t1, Names.t2, Names.tdotx, Names.t}],
     digit |-> [text |-> <<116, 91, 48, 45, 57, 93>>,
                matches |-> {Names.t1, Names.t2}]]

\* the fields of a schema entry, from <<name, type string>> pairs
Fields(pairs) ==
    [j \in 1..Len(pairs) |-> [key |-> pairs[j][1], data |-> pairs[j][2]]]

\* schema files; each entry has fields no other entry has
Trees ==
    [regexFirst |->
        <<[key |-> Keys.any, fields |-> Fields(<<<<"any", "int">>>>)],
          [key |-> Keys.t1, fields |-> Fields(<<<<"id", "int32">>>>)],
          [key |-> Keys.tdotx,
           fields |-> Fields(<<<<"id", "int">>, <<"flag", "short">>>>)]>>,
     twoRegex |->
        <<[key |-> Keys.digit,
           fields |-> Fields(<<<<"id", "int">>, <<"n", "int16">>>>)],
          [key |-> Keys.any, fields |-> Fields(<<<<"any", "int8">>>>)]>>,
     nested |->
        <<[key |-> Keys.any, fields |-> Fields(<<<<"any", "float">>>>)],
          [key |-> Keys.t, fields |-> Fields(<<<<Names.x, "int">>>>)]>>]

\* structures/ folders: the index has two entries, each of which matches
\* the file path or not, and names one of the schema files
Folder(first, second, one, two) ==
    [isDirectory |-> TRUE, hasIndex |-> TRUE, indexParses |-> TRUE,
     index |-> <<[key |-> [text |-> "first",
                           matches |-> IF first THEN {FilePath} ELSE {}],
                  data |-> "one.json"],
                 [key |-> [text |-> "second",
                           matches |-> IF second THEN {FilePath} ELSE {}],
                  data |-> "two.json"]>>,
     formats |-> [f \in {"one.json", "two.json"} |->
        [parses |-> TRUE,
         tree |-> IF f = "one.json" THEN Trees[one] ELSE Trees[two]]]]

FsNoIndex ==
    [isDirectory |-> TRUE, hasIndex |-> FALSE, indexParses |-> FALSE,
     index |-> <<>>, formats |-> <<>>]

Folders ==
    {Folder(first, second, pair[1], pair[2]) :
        first \in BOOLEAN, second \in BOOLEAN,
        pair \in {<<"regexFirst", "twoRegex">>, <<"twoRegex", "nested">>,
                  <<"nested", "regexFirst">>}}
    \cup {FsNone, FsNoIndex, FsBadIndex, FsBadFormat}

\* the in-band preambles of a table header
InBands ==
    {<<>>, <<"INT32">>, <<"INT8">>, <<"INT32", "INT16">>, <<"INT32", "INT8">>,
     <<"FLOAT">>}

Queries ==
    {[op |-> "convert", val |-> val] : val \in TypeStrings}
    \cup {[op |-> "lookup", folder |-> folder, filePath |-> FilePath,
           tableName |-> tableName] :
              folder \in Folders,
              tableName \in {Names.t1, Names.t2, Names.tdotx, Names.t, Names.zz}}
    \cup {[op |-> "reconcile", folder |-> folder, filePath |-> FilePath,
           tableName |-> tableName, inBand |-> inBand] :
              folder \in Folders,
              tableName \in {Names.t1, Names.t2, Names.zz},
              inBand \in InBands}

Answer(value) == [done |-> TRUE, value |-> value]

InitSchema ==
    /\ query \in Queries
    /\ answer = [done |-> FALSE]
    /\ rev \in IF query.op = "convert" THEN Revisions ELSE {"EXPANew"}
    /\ structure = <<>>
    /\ entries = <<>>
    /\ rowOffset = 0
    /\ pc = "idle"
    /\ size = 0
    /\ wr = WriteStart(<<>>)
    /\ rd = ReadStart
    /\ mem = <<>>
    /\ memBase = 0
    /\ ContainerIdle

\* convertEntryType(val) of the revision in use
Convert ==
    /\ query.op = "convert"
    /\ ~answer.done
    /\ answer' = Answer(IF rev = "EXPANew" THEN convertEntryTypeNew(query.val)
                        ELSE convertEntryType(query.val))
    /\ UNCHANGED <<codecVars, memVars, writerVars, readerVars, fileVars, query>>

\* getStructureFromFile(filePath, tableName)
Lookup ==
    /\ query.op = "lookup"
    /\ ~answer.done
    /\ answer' = Answer(getStructureFromFile(query.folder, query.filePath,
                                             query.tableName))
    /\ UNCHANGED <<codecVars, memVars, writerVars, readerVars, fileVars, query>>

\* the stream of EXPA64::getStructure: the preamble at position 0
Preamble(types) == LE(Len(types), 4) \o TypeBytes(Named(types))

\* EXPA64::getStructure(stream, filePath, tableName)
Reconcile ==
    /\ query.op = "reconcile"
    /\ ~answer.done
    /\ answer' = Answer(getStructure64(query.folder, query.filePath,
                                       query.tableName,
                                       Preamble(query.inBand), 0))
    /\ UNCHANGED <<codecVars, memVars, writerVars, readerVars, fileVars, query>>

NextSchema ==
    \/ Convert
    \/ Lookup
    \/ Reconcile

SpecSchema == InitSchema /\ [][NextSchema]_vars

----------------------------------------------------------------------------
(* Properties of the row codec *)

Written == pc \in {"written", "read"} /\ ~wr.thrown
Decoded == pc = "read"

TypeAt(i) == structure[i].type

\* the getEXPASize loop of the revision in use, field by field
SizeTrace ==
    IF rev = "EXPANew" THEN sizeLoopNew(structure, 1, SizeStart).at
    ELSE sizeLoop(structure, 1, SizeStart).at

\* the maximal runs of consecutive BOOL fields, as <<first, last>>
BoolRuns ==
    {run \in (1..Len(structure)) \X (1..Len(structure)) :
        /\ run[1] <= run[2]
        /\ \A k \in run[1]..run[2] : TypeAt(k) = "BOOL"
        /\ run[1] = 1 \/ TypeAt(run[1] - 1) # "BOOL"
        /\ run[2] = Len(structure) \/ TypeAt(run[2] + 1) # "BOOL"}

WordBytes(n) == 4 * ((n + 31) \div 32)

\* C2 (size law): the cursor writeEXPA reaches after its final bool flush,
\* rounded up to a multiple of 8, equals getEXPASize() of the structure.
C2_SizeLaw ==
    Written => ceilInteger(wr.offset, 8) = size

\* C3 (bool packing): every maximal run of N consecutive BOOL fields takes
\* ceil(N / 32) * 4 bytes in writeEXPA, in readEXPA and in getEXPASize (that
\* many bytes of non-overlapping 32-bit words, alignment holes not counted),
\* and the word of a run holds the bits of that run's bools and no others.
C3_BoolPacking ==
    Decoded =>
        \A run \in BoolRuns :
            LET i == run[1]
                j == run[2]
                n == j - i + 1
            IN  /\ 4 * Cardinality({wr.at[k].off : k \in i..j}) = WordBytes(n)
                /\ 4 * Cardinality({rd.at[k].off : k \in i..j}) = WordBytes(n)
                /\ 4 * Cardinality({k \in i..j : SizeTrace[k].hi > SizeTrace[k].lo})
                      = WordBytes(n)
                /\ \A k \in i..j : SizeTrace[k].hi - SizeTrace[k].lo \in {0, 4}
                /\ \A k, m \in i..j :
                      /\ wr.at[k].off = wr.at[m].off
                            \/ wr.at[k].off + 4 <= wr.at[m].off
                            \/ wr.at[m].off + 4 <= wr.at[k].off
                      /\ rd.at[k].off = rd.at[m].off
                            \/ rd.at[k].off + 4 <= rd.at[m].off
                            \/ rd.at[m].off + 4 <= rd.at[k].off
                /\ \A k \in i..j :
                      \A m \in 1..Len(structure) :
                          (TypeAt(m) = "BOOL" /\ (m < i \/ m > j))
                              => wr.at[m].off # wr.at[k].off
                /\ \A k \in i..j :
                      \A b \in 0..31 :
                          readBool(wr.data, wr.at[k].off, b).value.v[1] =
                              IF \E m \in i..j : /\ wr.at[m].off = wr.at[k].off
                                                 /\ wr.at[m].bit = b
                                                 /\ entries[m].v[1] = 1
                              THEN 1 ELSE 0

\* C4: getEXPASize() is a multiple of 8 for every structure, and 8 for
\* [INT32, INT16, INT8].
C4_SizeMultipleOf8 ==
    pc # "new" =>
        /\ size % 8 = 0
        /\ [i \in 1..Len(structure) |-> TypeAt(i)] = <<"INT32", "INT16", "INT8">>
              => size = 8

\* the fields whose cell makes writeEXPAEntry return a CHNKEntry according
\* to the claim: non-empty strings and non-empty arrays
EmittingFields ==
    {i \in 1..Len(structure) :
        /\ TypeAt(i) \in StringTypes \cup {"INT_ARRAY"}
        /\ entries[i].v # <<>>}

\* the slot a field's CHNK entry refers to
SlotOf(i) == rowOffset + wr.at[i].off + (IF TypeAt(i) = "INT_ARRAY" THEN 8 ELSE 0)

\* C5 (CHNK emission): encoding a row returns exactly one CHNKEntry for each
\* non-empty string cell and each non-empty array cell, and none for an
\* empty string, an empty array or a cell of another type.
C5_ChunkEmission ==
    Written =>
        /\ Len(wr.chunk) = Cardinality(EmittingFields)
        /\ \A i \in EmittingFields :
              Cardinality({c \in 1..Len(wr.chunk) : wr.chunk[c].offset = SlotOf(i)}) = 1
        /\ \A c \in 1..Len(wr.chunk) :
              \E i \in EmittingFields : wr.chunk[c].offset = SlotOf(i)

StoredTypes ==
    {"INT8", "INT16", "INT32", "FLOAT", "STRING", "STRING2", "STRING3", "INT_ARRAY"}

\* C7 (alignment): every INT8, INT16, INT32, FLOAT, string and INT_ARRAY
\* field is written at a row offset that is a multiple of its alignment, and
\* readEXPA reads it at the same offset.
C7_Alignment ==
    Decoded =>
        \A i \in 1..Len(structure) :
            TypeAt(i) \in StoredTypes =>
                /\ wr.at[i].off % getAlignment(TypeAt(i)) = 0
                /\ rd.at[i].off = wr.at[i].off

\* the CHNK entry emitted for field i, if there is one
ChunkOf(i) == {c \in 1..Len(wr.chunk) : wr.chunk[c].offset = SlotOf(i)}

\* the payload is the bytes followed only by zero bytes, n bytes in all
PaddedTo(payload, bytes, n) ==
    /\ Len(payload) = n
    /\ \A k \in 1..n : payload[k] = IF k <= Len(bytes) THEN bytes[k] ELSE 0

\* C8 as stated (string payload): the CHNKEntry of a non-empty string of L
\* bytes has exactly round_up_4(L + 1) bytes, the string followed by zeros.
C8_PayloadRoundUpLPlus1 ==
    Written =>
        \A i \in 1..Len(structure) :
            (TypeAt(i) \in StringTypes /\ entries[i].v # <<>>) =>
                \A c \in ChunkOf(i) :
                    PaddedTo(wr.chunk[c].value, entries[i].v,
                             ceilInteger(Len(entries[i].v) + 1, 4))

\* C8 as amended: the payload is the string followed only by zero bytes, of
\* round_up_4(L + 1) bytes in the EXPANew revision and of round_up_4(L + 2)
\* bytes in the other one.
C8_StringPayload ==
    Written =>
        \A i \in 1..Len(structure) :
            (TypeAt(i) \in StringTypes /\ entries[i].v # <<>>) =>
                /\ ChunkOf(i) # {}
                /\ \A c \in ChunkOf(i) :
                      PaddedTo(wr.chunk[c].value, entries[i].v,
                               ceilInteger(Len(entries[i].v)
                                 + (IF rev = "EXPANew" THEN 1 ELSE 2), 4))

\* a 3-byte string has been encoded by the revision that pads to L + 2, and
\* its payload has 8 bytes
C8_Witness ==
    /\ Written
    /\ rev = "EXPA"
    /\ \E i \in 1..Len(structure) :
          /\ TypeAt(i) \in StringTypes
          /\ Len(entries[i].v) = 3
          /\ \E c \in ChunkOf(i) : Len(wr.chunk[c].value) = 8

\* C9 (int-array cell): an INT_ARRAY cell of k values at row offset o stores
\* k as a little-endian u32 at o and zero in the 8 bytes at o + 8; for k > 0
\* it emits one CHNKEntry with row_offset = base_offset + o + 8 whose payload
\* is the 4k bytes of the values, each a little-endian i32.
C9_IntArrayCell ==
    Written =>
        \A i \in 1..Len(structure) :
            TypeAt(i) = "INT_ARRAY" =>
                LET o == wr.at[i].off
                    k == Len(entries[i].v)
                IN  /\ ReadLE(wr.data, o, 4) = k
                    /\ \A b \in 9..16 : wr.data[o + b] = 0
                    /\ k > 0 =>
                          /\ Cardinality(ChunkOf(i)) = 1
                          /\ \A c \in ChunkOf(i) :
                                /\ Len(wr.chunk[c].value) = 4 * k
                                /\ \A e \in 1..k :
                                      SubSeq(wr.chunk[c].value, 4 * e - 3, 4 * e)
                                          = LE(entries[i].v[e], 4)

----------------------------------------------------------------------------
(* Properties of the container run (SpecFile) *)

\* readEXPA<expa> has returned for the file of the first pass, which is as
\* writeEXPA<expa> left it and is described by the schema files
ReadBack == pass = 1 /\ rpc = "done" /\ ~tampered /\ fs = FsDescribing(file)

\* C1 (round trip): a file written by writeEXPA<D> and read by readEXPA<D>
\* with the same schema files reads back ok and equal to what was written:
\* the same tables in the same order, each with the same name, the same field
\* names and types and the same rows, cell by cell.
C1_RoundTrip ==
    ReadBack =>
        /\ result.ok
        /\ ~fault
        /\ Len(result.value.tables) = Len(file.tables)
        /\ \A t \in 1..Len(file.tables) :
              /\ result.value.tables[t].name = file.tables[t].name
              /\ result.value.tables[t].structure = file.tables[t].structure
              /\ result.value.tables[t].entries = file.tables[t].entries

\* C6 (idempotence): the file written from what was read back is, byte for
\* byte, the file that was read.
C6_Idempotence ==
    (pass = 2 /\ wpc = "done") => stream.out = firstOut

\* the row_size a table declares on disk, and the size of the structure the
\* reader resolved for it
Declared(t) == U32(stream.out, layout[t].rowSize)
ResolvedSize(t) == getEXPASizeNew(tables[t].structure)

\* the reader has examined tables 1..Len(tables) of the file on disk
Examined == pass = 1 /\ rpc # "idle"

\* the reader returned the mismatch error at table t
RejectedAt(t) == t = Len(tables) /\ result.error = SizeMismatch

\* C10 as stated (reader size check): a table is rejected with the
\* structure-size-mismatch error exactly when the size of its resolved
\* structure differs from its declared row_size rounded up to 8.
C10_RoundedSizeCheck ==
    Examined =>
        \A t \in 1..Len(tables) :
            RejectedAt(t) <=> ResolvedSize(t) # ceilInteger(Declared(t), 8)

\* C10 as amended: a table is rejected with the structure-size-mismatch error
\* exactly when the size of its resolved structure differs from its declared
\* row_size as it is stored, without rounding.
C10_ReaderSizeCheck ==
    Examined =>
        \A t \in 1..Len(tables) :
            RejectedAt(t) <=> ResolvedSize(t) # Declared(t)

\* a table whose declared row_size rounds up to the size of its structure
\* has been rejected
C10_Witness ==
    /\ Examined
    /\ tables # <<>>
    /\ RejectedAt(Len(tables))
    /\ ResolvedSize(Len(tables)) = ceilInteger(Declared(Len(tables)), 8)

\* where the rows of the tables the reader examined end
TablesEnd ==
    IF tables = <<>> THEN 8
    ELSE LET last == tables[Len(tables)]
         IN  last.dataOffset + last.entryCount * ceilInteger(last.entrySize, 8)

\* the reader is past the loop over the tables: it went through all of them
\* and has looked at the CHNK header
PastTables ==
    /\ pass = 1
    /\ rpc \in {"patch", "decode", "done"}
    /\ result.error \notin {LacksEXPA, SizeMismatch, Thrown.error}

\* nothing of the file was patched or decoded, and no TableFile is returned
NothingRead ==
    /\ ~result.ok
    /\ result.value = NoFile
    /\ finalTable = <<>>
    /\ mem = stream.out

\* C11 (magic check), for a file that holds both headers: when the first
\* u32 of the file is not EXPA_MAGIC the reader returns the
\* missing-EXPA-header error without looking at a table; when the u32 at the
\* aligned position after the last row region is not CHNK_MAGIC it returns
\* the missing-CHNK-header error; in both cases it returns no TableFile,
\* decodes no row and patches no pointer.
C11_MagicCheck ==
    /\ (pass = 1 /\ rpc # "idle" /\ U32(stream.out, 0) # EXPA_MAGIC) =>
          /\ rpc = "done"
          /\ result = Unexpected(LacksEXPA)
          /\ tables = <<>>
          /\ NothingRead
    /\ (PastTables
            /\ Fits(stream.out, ceilInteger(TablesEnd, ALIGN_STEP(dialect)), 8)
            /\ U32(stream.out, ceilInteger(TablesEnd, ALIGN_STEP(dialect)))
                  # CHNK_MAGIC) =>
          /\ rpc = "done"
          /\ result = Unexpected(LacksCHNK)
          /\ NothingRead

\* a file with rows and CHNK entries was refused for its CHNK magic
C11_Witness ==
    /\ PastTables
    /\ result = Unexpected(LacksCHNK)
    /\ chnk # <<>>
    /\ \E t \in 1..Len(tables) : tables[t].entryCount > 0

RECURSIVE EntriesPastEnd(_, _, _)
\* one of the n CHNK entries from pos on names a slot, or has a payload,
\* that is not wholly inside the image
EntriesPastEnd(image, pos, n) ==
    /\ n > 0
    /\ \/ ~Fits(image, pos, 8)
       \/ ~Fits(image, U32(image, pos), 8)
       \/ ~Fits(image, pos + 8, U32(image, pos + 4))
       \/ EntriesPastEnd(image, pos + 8 + U32(image, pos + 4), n - 1)

\* the row region of a table the reader examined, or a CHNK entry of the
\* section it went through, reaches past the end of the file
PastEnd ==
    \/ \E t \in 1..Len(tables) :
          tables[t].dataOffset
              + tables[t].entryCount * ceilInteger(tables[t].entrySize, 8)
            > Len(stream.out)
    \/ /\ PastTables
       /\ LET at == ceilInteger(TablesEnd, ALIGN_STEP(dialect))
          IN  /\ Fits(stream.out, at, 8)
              /\ U32(stream.out, at) = CHNK_MAGIC
              /\ EntriesPastEnd(stream.out, at + 8, U32(stream.out, at + 4))

\* C12 (too-short input): when a declared row region, a CHNK slot or a CHNK
\* payload reaches past the end of the file, the reader touches no byte
\* outside the loaded image and what it returns is an error.
C12_TooShortInput ==
    (pass = 1 /\ PastEnd) =>
        /\ ~outside
        /\ rpc = "done" => ~result.ok

\* structure.json, or the schema file it selects for the file, is not JSON
SchemaUnparseable ==
    /\ fs.isDirectory
    /\ fs.hasIndex
    /\ \/ ~fs.indexParses
       \/ \E i \in 1..Len(fs.index) :
             /\ regex_search(FilePath, fs.index[i].key)
             /\ \A j \in 1..(i - 1) : ~regex_search(FilePath, fs.index[j].key)
             /\ fs.index[i].data \in DOMAIN fs.formats
             /\ ~fs.formats[fs.index[i].data].parses

\* C13 (malformed schema): when structure.json or the schema file it selects
\* is not JSON, the resolver yields the empty Structure (so a 32-bit table
\* gets no fields) and readEXPA does not end in an exception.
C13_MalformedSchema ==
    (pass = 1 /\ SchemaUnparseable) =>
        /\ result # Thrown
        /\ ~getStructureFromFile(fs, FilePath, NameOf(1)).thrown
        /\ getStructureFromFile(fs, FilePath, NameOf(1)).entries = <<>>
        /\ dialect = "EXPA32" => \A t \in 1..Len(tables) : tables[t].structure = <<>>

(***************************************************************************)
(* The schema resolver                                                     *)
(***************************************************************************)

\* what the file-based lookup of a query gives
FromFile == getStructureFromFile(query.folder, query.filePath, query.tableName)

\* the in-band Structure of a reconcile query: field j (from 0) of type T
\* is named by T's name and j
InBand ==
    [j \in 1..Len(query.inBand) |->
        Field(<<toString(query.inBand[j]), j - 1>>, query.inBand[j])]

TypesOf(s) == [j \in 1..Len(s) |-> s[j].type]

Reconciled == query.op = "reconcile" /\ answer.done /\ ~answer.value.thrown

\* C14: EXPA64::getStructure returns the in-band Structure, with the names
\* "{type} {index}", when the file-based lookup is empty, or its length is
\* not the in-band field count, or some position has another type; otherwise
\* it returns the file-based Structure with the names of the schema file.
C14_Reconcile ==
    Reconciled =>
        answer.value.entries =
            IF \/ FromFile.entries = <<>>
               \/ Len(FromFile.entries) # Len(query.inBand)
               \/ TypesOf(FromFile.entries) # query.inBand
            THEN InBand
            ELSE FromFile.entries

\* a schema file that has as many fields as the table but another type in
\* one position: the in-band Structure is returned
C14_Witness ==
    /\ Reconciled
    /\ Len(FromFile.entries) = Len(query.inBand)
    /\ FromFile.entries # <<>>
    /\ TypesOf(FromFile.entries) # query.inBand
    /\ TypesOf(answer.value.entries) = query.inBand

\* a schema file that agrees with the preamble: its names are returned
C14_Named ==
    /\ Reconciled
    /\ FromFile.entries # <<>>
    /\ TypesOf(FromFile.entries) = query.inBand
    /\ answer.value.entries = FromFile.entries

Converted == query.op = "convert" /\ answer.done

\* C15: convertEntryType maps byte to INT8, short to INT16, int to INT32,
\* int array to INT_ARRAY, float to FLOAT, int8 to INT8, int16 to INT16,
\* int32 to INT32, bool to BOOL, empty to EMPTY, string to STRING, string2 to
\* STRING2, string3 to STRING3, and every other string to EMPTY.
C15_TypeStrings ==
    Converted =>
        answer.value =
            CASE query.val = "byte" -> "INT8"
              [] query.val = "short" -> "INT16"
              [] query.val \in {"int", "int32"} -> "INT32"
              [] query.val = "int array" -> "INT_ARRAY"
              [] query.val = "float" -> "FLOAT"
              [] query.val = "int8" -> "INT8"
              [] query.val = "int16" -> "INT16"
              [] query.val = "bool" -> "BOOL"
              [] query.val = "string" -> "STRING"
              [] query.val = "string2" -> "STRING2"
              [] query.val = "string3" -> "STRING3"
              [] OTHER -> "EMPTY"

Looked == query.op = "lookup" /\ answer.done /\ ~answer.value.thrown

\* the index entries whose regex matches the file path
IndexHits ==
    {i \in 1..Len(query.folder.index) :
        query.filePath \in query.folder.index[i].key.matches}

\* the schema file the first of them names
Selected == query.folder.formats[query.folder.index[MinOf(IndexHits)].data].tree

\* the entries of the selected schema file keyed by the table name itself,
\* and those whose key matches it in full as a regex
ExactKeys == {i \in 1..Len(Selected) : Selected[i].key.text = query.tableName}
RegexKeys == {i \in 1..Len(Selected) : query.tableName \in Selected[i].key.matches}

StructureOf(fields) ==
    [j \in 1..Len(fields) |->
        Field(fields[j].key, convertEntryTypeNew(fields[j].data))]

\* C16: getStructureFromFile takes the schema file of the first index entry,
\* in declaration order, whose regex matches the file path; in it the entry
\* keyed by the table name itself wins over every regex key, and without one
\* the first key, in declaration order, that matches the table name in full
\* as a regex is used; without the folder or the index, or when nothing
\* matches, the result is the empty Structure.
C16_LookupPrecedence ==
    Looked =>
        answer.value.entries =
            IF ~query.folder.isDirectory \/ ~query.folder.hasIndex THEN <<>>
            ELSE IF IndexHits = {} THEN <<>>
            ELSE IF ExactKeys # {}
            THEN StructureOf(Selected[MinOf(ExactKeys)].fields)
            ELSE IF RegexKeys # {}
            THEN StructureOf(Selected[MinOf(RegexKeys)].fields)
            ELSE <<>>

(***************************************************************************)
(* The written file                                                        *)
(***************************************************************************)

RECURSIVE LogicalSize(_, _, _, _)
\* the row size of a structure before the final round-up: fields are laid
\* out left to right at their alignment, consecutive BOOL fields share
\* 32-bit words of 4 bytes, and a word in flight is closed by the next field
\* of another type, by the 33rd BOOL and by the end of the row
LogicalSize(types, i, offset, bits) ==
    IF i > Len(types) THEN offset + (IF bits > 0 THEN 4 ELSE 0)
    ELSE LET T == types[i]
             gate == T # "BOOL" \/ bits = 32
             flushed == offset + (IF bits > 0 THEN 4 ELSE 0)
             at == IF ~gate THEN offset
                   ELSE IF getAlignment(T) = 0 THEN flushed
                   ELSE ceilInteger(flushed, getAlignment(T))
         IN  IF T = "BOOL"
             THEN LogicalSize(types, i + 1, at, (IF gate THEN 0 ELSE bits) + 1)
             ELSE LogicalSize(types, i + 1, at + getSize(T), 0)

\* the file is as writeEXPA<expa> wrote it, or is being written
AsWritten == pass = 1 /\ ~tampered /\ wpc \in {"tables", "done"}

\* the u32 row_size in the header of table t
StoredRowSize(t) == U32(stream.out, layout[t].rowSize)

\* where the row region of table t ends
RegionEnd(t) ==
    IF t < Len(layout) THEN layout[t + 1].header
    ELSE IF wpc = "done" THEN WrittenCHNKAt
    ELSE stream.pos

\* C17: the u32 row_size that writeEXPA stores in a table header is the
\* structure's logical row size before the final round-up to 8 (7 for
\* [INT32, INT16, INT8], 6 for [INT32, INT16]), and every row of the table
\* is written as exactly round_up_8(row_size) bytes.
C17_WrittenRowSize ==
    AsWritten =>
        \A t \in 1..Len(layout) :
            /\ StoredRowSize(t) =
                  LogicalSize(TypesOf(file.tables[t].structure), 1, 0, 0)
            /\ RegionEnd(t) - layout[t].data =
                  Len(file.tables[t].entries) * ceilInteger(StoredRowSize(t), 8)

\* where the reader's cursor is after its next alignment step
ReaderAligned == ceilInteger(rpos, ALIGN_STEP(dialect))

\* C18: in a file written by writeEXPA<EXPA32> or writeEXPA<EXPA64>, with
\* any number of tables and rows, every table header and the CHNK header
\* begin at a multiple of the dialect's ALIGN_STEP and every row region at a
\* multiple of 8, and every alignment step of readEXPA lands on the bytes
\* the writer put there: on the table header, the row region and the CHNK
\* header of the writer.
C18_SectionAlignment ==
    AsWritten =>
        /\ \A t \in 1..Len(layout) :
              /\ layout[t].header % ALIGN_STEP(dialect) = 0
              /\ layout[t].data % 8 = 0
        /\ wpc = "done" => WrittenCHNKAt % ALIGN_STEP(dialect) = 0
        /\ \A t \in 1..Len(tables) : tables[t].dataOffset = layout[t].data
        /\ rpc = "tables" =>
              ReaderAligned = IF left = 0 THEN WrittenCHNKAt
                              ELSE layout[Len(tables) + 1].header

\* the reader has passed the headers of a file of two tables with rows, in
\* which a table header did not end at a multiple of 8
C18_Witness ==
    /\ AsWritten
    /\ rpc = "patch"
    /\ Len(tables) = 2
    /\ \E t \in 1..2 : (layout[t].rowSize + 8) % 8 # 0
    /\ \A t \in 1..2 : Len(file.tables[t].entries) > 0

(***************************************************************************)
(* The bools of a row                                                      *)
(***************************************************************************)

\* the word of a run that BOOL field f of the run belongs to, from 0
WordOf(run, f) == (f - run[1]) \div 32

\* C19: the k-th BOOL (k from 0) of a run is written by Structure::writeEXPA
\* to bit k mod 32 of the run's word floor(k / 32), the words of the run are
\* flushed before the next field of another type is placed, and
\* Structure::readEXPA reads every BOOL from that word and bit, so that each
\* decoded bool is the encoded one; [BOOL, BOOL, INT32] with [true, true, 9]
\* is written as 03 00 00 00 09 00 00 00 and decodes to [true, true, 9].
C19_BoolSymmetry ==
    /\ Written =>
          \A run \in BoolRuns :
              /\ \A f \in run[1]..run[2] :
                    /\ wr.at[f].bit = (f - run[1]) % 32
                    /\ readBool(wr.data, wr.at[f].off, wr.at[f].bit).value
                          = entries[f]
                    /\ \A g \in run[1]..run[2] :
                          IF WordOf(run, f) = WordOf(run, g)
                          THEN wr.at[f].off = wr.at[g].off
                          ELSE \/ wr.at[f].off + 4 <= wr.at[g].off
                               \/ wr.at[g].off + 4 <= wr.at[f].off
                    /\ run[2] < Len(structure) =>
                          wr.at[run[2] + 1].off >= wr.at[f].off + 4
    /\ Decoded =>
          \A run \in BoolRuns :
              \A f \in run[1]..run[2] :
                  /\ rd.at[f] = wr.at[f]
                  /\ rd.values[f] = entries[f]
    /\ (/\ Written
        /\ TypesOf(structure) = <<"BOOL", "BOOL", "INT32">>
        /\ entries = <<EntryValue("bool", <<1>>), EntryValue("bool", <<1>>),
                       EntryValue("i32", <<9>>)>>)
          => /\ SubSeq(wr.data, 1, 8) = <<3, 0, 0, 0, 9, 0, 0, 0>>
             /\ Decoded => rd.values = entries

(***************************************************************************)
(* The CHNK entries of a written file                                      *)
(***************************************************************************)

PointerTypes == StringTypes \cup {"INT_ARRAY"}

\* the cells that have a pointer slot: <<table, row, field>>
PointerCells ==
    UNION {{<<t, r, f>> : r \in 1..Len(file.tables[t].entries),
                         f \in {g \in 1..Len(file.tables[t].structure) :
                                   file.tables[t].structure[g].type
                                       \in PointerTypes}} :
           t \in 1..Len(layout)}

\* where row r of table t begins in the file, and how long it is
RowLength(t) == ceilInteger(StoredRowSize(t), 8)
RowStart(t, r) == layout[t].data + (r - 1) * RowLength(t)

\* the offset of a pointer field in its row: the logical size of the fields
\* before it, moved up to the field's alignment of 8
FieldOffset(t, f) ==
    ceilInteger(LogicalSize(SubSeq(TypesOf(file.tables[t].structure), 1, f - 1),
                            1, 0, 0), 8)

\* the file offset of the pointer slot of a cell
Slot(cell) ==
    RowStart(cell[1], cell[2]) + FieldOffset(cell[1], cell[3])
        + (IF file.tables[cell[1]].structure[cell[3]].type = "INT_ARRAY"
           THEN 8 ELSE 0)

\* where the payload of CHNK entry i lies in the file
PayloadAt(i) ==
    LET start[k \in 1..Len(chnk)] ==
            IF k = 1 THEN WrittenCHNKAt + 16
            ELSE start[k - 1] + Len(chnk[k - 1].value) + 8
    IN  start[i]

\* the payload is one written for the value of the cell: the bytes of the
\* string and a NUL, or four bytes for each element of the array
PayloadOf(cell, payload) ==
    LET value == file.tables[cell[1]].entries[cell[2]][cell[3]].v
    IN  IF file.tables[cell[1]].structure[cell[3]].type = "INT_ARRAY"
        THEN Len(payload) = 4 * Len(value)
        ELSE /\ Len(payload) > Len(value)
             /\ SubSeq(payload, 1, Len(value) + 1) = value \o <<0>>

Patched == rpc = "decode" \/ (rpc = "done" /\ result.ok)

\* C20: in a file written by writeEXPA, the row_offset of every CHNK entry
\* is the file offset of the pointer slot of one cell (the table's data
\* offset + row index * round_up_8(row_size) + the field's offset, + 8 for
\* an INT_ARRAY), the 8 bytes of the slot lie inside the row and are zero in
\* the file, and no other entry has that slot; after readEXPA has patched
\* the image, the slot holds the address of the payload written for that
\* cell.
C20_SlotAddressing ==
    (AsWritten /\ wpc = "done") =>
        \A i \in 1..Len(chnk) :
            /\ \E cell \in PointerCells :
                  /\ chnk[i].offset = Slot(cell)
                  /\ Slot(cell) >= RowStart(cell[1], cell[2])
                  /\ Slot(cell) + 8 <= RowStart(cell[1], cell[2]) + RowLength(cell[1])
                  /\ PayloadOf(cell, chnk[i].value)
            /\ SubSeq(stream.out, chnk[i].offset + 1, chnk[i].offset + 8)
                  = LE(0, 8)
            /\ \A j \in 1..Len(chnk) : j # i => chnk[j].offset # chnk[i].offset
            /\ SubSeq(stream.out, PayloadAt(i) + 1,
                      PayloadAt(i) + Len(chnk[i].value)) = chnk[i].value
            /\ Patched =>
                  SubSeq(mem, chnk[i].offset + 1, chnk[i].offset + 8)
                      = LE(memBase + PayloadAt(i), 8)

\* readEXPA has patched the slots of a file with a string table and an
\* array table of two rows each
C20_Witness ==
    /\ AsWritten
    /\ rpc = "decode"
    /\ Len(chnk) >= 3
    /\ \E i, j \in 1..Len(chnk) :
          \E c, d \in PointerCells :
              /\ chnk[i].offset = Slot(c)
              /\ chnk[j].offset = Slot(d)
              /\ file.tables[c[1]].structure[c[3]].type = "STRING"
              /\ file.tables[d[1]].structure[d[3]].type = "INT_ARRAY"
              /\ d[2] = 2

(***************************************************************************)
(* The bytes of an encoded row                                             *)
(***************************************************************************)

ScalarTypes == {"INT8", "INT16", "INT32", "FLOAT"}

\* the indices (from 0) of the row buffer that belong to a field or to a
\* flushed bool word
Owned ==
    UNION {wr.at[f].off .. (wr.at[f].off + getSize(TypeAt(f)) - 1) :
              f \in {g \in 1..Len(structure) : TypeAt(g) # "BOOL"}}
    \cup UNION {wr.flushed[w] .. (wr.flushed[w] + 3) : w \in 1..Len(wr.flushed)}

\* C21: Structure::writeEXPA stores each INT8, INT16, INT32 and FLOAT value
\* little-endian in exactly its own size bytes at its offset, and every byte
\* of the 0xCC-prefilled row buffer that belongs to no field and to no
\* flushed bool word still holds 0xCC after encoding; [INT32, INT16, INT8]
\* with [42, -1, 7] is encoded as 2A 00 00 00 FF FF 07 CC.
C21_PaddingAndScalars ==
    Written =>
        /\ \A f \in 1..Len(structure) :
              TypeAt(f) \in ScalarTypes =>
                  SubSeq(wr.data, wr.at[f].off + 1,
                         wr.at[f].off + getSize(TypeAt(f)))
                      = LE(entries[f].v[1], getSize(TypeAt(f)))
        /\ \A b \in 0..(Len(wr.data) - 1) : b \notin Owned => wr.data[b + 1] = 204
        /\ (/\ TypesOf(structure) = <<"INT32", "INT16", "INT8">>
            /\ entries = <<EntryValue("i32", <<42>>), EntryValue("i16", <<-1>>),
                           EntryValue("i8", <<7>>)>>)
              => wr.data = <<42, 0, 0, 0, 255, 255, 7, 204>>

\* a row with a hole between two scalars and padding at its end
C21_Witness ==
    /\ Written
    /\ TypesOf(structure) = <<"INT8", "INT32">>
    /\ wr.data = <<7, 204, 204, 204, 42, 0, 0, 0>>

(***************************************************************************)
(* The CHNK section of a written file                                      *)
(***************************************************************************)

\* where the row region of the last table ends
RowsEnd ==
    IF layout = <<>> THEN 8
    ELSE layout[Len(layout)].data
            + Len(file.tables[Len(layout)].entries) * RowLength(Len(layout))

RECURSIVE ParsedCHNK(_, _, _)
\* the n CHNK entries found in the file from pos on, and where they end
ParsedCHNK(image, pos, n) ==
    IF n = 0 THEN [list |-> <<>>, end |-> pos]
    ELSE LET sz == U32(image, pos + 4)
             rest == ParsedCHNK(image, pos + 8 + sz, n - 1)
         IN  [list |-> <<[offset |-> U32(image, pos),
                          value |-> SubSeq(image, pos + 9, pos + 8 + sz)]>>
                       \o rest.list,
              end |-> rest.end]

RECURSIVE EmittedFrom(_, _)
\* the CHNKEntries that the rows emit, from row r of table t on: by table,
\* then by row, then by field
EmittedFrom(t, r) ==
    IF t > Len(layout) THEN <<>>
    ELSE IF r > Len(file.tables[t].entries) THEN EmittedFrom(t + 1, 1)
    ELSE writeEXPANew(file.tables[t].structure, RowStart(t, r),
                      Fill(RowLength(t), 204), file.tables[t].entries[r]).chunk
         \o EmittedFrom(t, r + 1)

TableCount ==
    IF readHeader(stream.out).tableCount > 0
    THEN readHeader(stream.out).tableCount ELSE 0

\* the reader has read the CHNK header
CHNKHeaderRead ==
    /\ pass = 1
    /\ \/ rpc \in {"patch", "decode"}
       \/ rpc = "done" /\ (result.ok \/ result.error = LacksCHNK)

\* the reader has decoded the rows of a table, or is about to
Decoding == pass = 1 /\ (rpc = "decode" \/ finalTable # <<>>)

\* C23: in a run of readEXPA all table headers are parsed and size-checked
\* before the CHNK header is read, every CHNK pointer patch is applied
\* before the rows of any table are decoded (in a file as written, every
\* slot then holds the address of its payload), and when a check fails no
\* row is decoded at all and no FinalFile is returned.
C23_ReadOrdering ==
    /\ CHNKHeaderRead =>
          /\ Len(tables) = TableCount
          /\ \A t \in 1..Len(tables) : ResolvedSize(t) = tables[t].entrySize
    /\ Decoding =>
          /\ CHNKHeaderRead
          /\ left = 0
          /\ ~tampered =>
                \A i \in 1..Len(chnk) :
                    SubSeq(mem, chnk[i].offset + 1, chnk[i].offset + 8)
                        = LE(memBase + PayloadAt(i), 8)
    /\ (pass = 1 /\ rpc = "done" /\ ~result.ok) =>
          /\ finalTable = <<>>
          /\ result.value = NoFile

\* the rows of the first of two tables are decoded, after the patches
C23_Witness ==
    /\ pass = 1
    /\ ~tampered
    /\ rpc = "decode"
    /\ Len(tables) = 2
    /\ Len(finalTable) = 1
    /\ Len(chnk) >= 2

(***************************************************************************)
(* The shape of a decoded row                                              *)
(***************************************************************************)

\* where the reader stands after field f: at the next field, or at the end
AfterField(f) == IF f = Len(structure) THEN rd.offset ELSE rd.at[f + 1].off

\* C24: for a non-empty Structure, Structure::readEXPA returns one value for
\* each field, in field order, and the value holds the alternative of its
\* field's type: bool for BOOL, i8, i16 and i32 for INT8, INT16 and INT32,
\* f32 for FLOAT, string for STRING, STRING2 and STRING3, vec<i32> for
\* INT_ARRAY and none for EMPTY, UNK0 and UNK1, which take no bytes of the
\* row: after such a field the reader stands where it stood, up to the
\* alignment of the next field.
C24_DecodedRowShape ==
    (Decoded /\ structure # <<>>) =>
        /\ Len(rd.values) = Len(structure)
        /\ \A f \in 1..Len(structure) :
              /\ rd.values[f].tag =
                    CASE TypeAt(f) = "BOOL" -> "bool"
                      [] TypeAt(f) = "INT8" -> "i8"
                      [] TypeAt(f) = "INT16" -> "i16"
                      [] TypeAt(f) = "INT32" -> "i32"
                      [] TypeAt(f) = "FLOAT" -> "f32"
                      [] TypeAt(f) \in {"STRING", "STRING2", "STRING3"} -> "string"
                      [] TypeAt(f) = "INT_ARRAY" -> "vec"
                      [] TypeAt(f) \in NoneTypes -> "none"
              /\ TypeAt(f) \in NoneTypes =>
                    /\ rd.values[f].v = <<>>
                    /\ AfterField(f) >= rd.at[f].off
                    /\ IF f = Len(structure) THEN AfterField(f) = rd.at[f].off
                       ELSE AfterField(f) - rd.at[f].off
                               < IF getAlignment(TypeAt(f + 1)) = 0 THEN 1
                                 ELSE getAlignment(TypeAt(f + 1))

\* a row decoded with a none field between two scalars of other types
C24_Witness ==
    /\ Decoded
    /\ Len(structure) = 2
    /\ TypeAt(1) \in NoneTypes
    /\ TypeAt(2) = "INT16"
    /\ rd.values[2].tag = "i16"
    /\ rd.values[1].tag = "none"

(***************************************************************************)
(* The writes of Structure::writeEXPA                                      *)
(***************************************************************************)

\* writeEXPA was called
WriteCalled == pc \in {"written", "read"}

\* C25: for every Structure and every row valid for it, every byte that
\* Structure::writeEXPA writes (the scalars, the 4-byte bool flushes, the
\* 8-byte string slots and the 16-byte int-array slots) lies at an index
\* below the size of the row buffer it is given, and the call completes
\* without raising an error, also for runs of more than 32 BOOL fields.
C25_WriteStaysInBuffer ==
    WriteCalled =>
        /\ ~wr.thrown
        /\ ~wr.over
        /\ \A b \in Owned : b < Len(wr.data)

(***************************************************************************)
(* The types of a reconciled Structure                                     *)
(***************************************************************************)

\* C26: whatever the schema files contain, the Structure returned by
\* EXPA64::getStructure has the field count of the in-band preamble and,
\* position by position, its EntryTypes; the schema files can change only
\* the names of the fields.
C26_InBandTypesWin ==
    Reconciled =>
        /\ Len(answer.value.entries) = Len(query.inBand)
        /\ \A j \in 1..Len(query.inBand) :
              answer.value.entries[j].type = query.inBand[j]

\* a schema file of two fields names the fields of a two-field preamble
C26_Witness ==
    /\ Reconciled
    /\ Len(query.inBand) = 2
    /\ answer.value.entries = FromFile.entries
    /\ answer.value.entries[1].name = "id"

\* a schema file of two fields with another second type changes nothing
C26_Disagreeing ==
    /\ Reconciled
    /\ Len(query.inBand) = 2
    /\ Len(FromFile.entries) = 2
    /\ TypesOf(FromFile.entries) # query.inBand
    /\ TypesOf(answer.value.entries) = query.inBand

====
